---- MODULE Spec2Model ----
(***************************************************************************)
(* A model of the fontbakery rule catalog (Lib/fontbakery/checks.py).      *)
(*                                                                         *)
(* Every rule is a function of the result recorder `fb` and of the inputs  *)
(* the driver hands it.  The driver calls the rules one after the other;   *)
(* one action of this model is one whole call of one rule, from its        *)
(* fb.new_check to its return (or to the exception that leaves it).        *)
(* The state keeps what that call left behind: the checks it opened with   *)
(* their events, the font and family objects as the rule left them, the    *)
(* save operations it invoked, its return value and the exception, if any. *)
(*                                                                         *)
(* Strings are sequences of tokens: a token is a word, a separator or an   *)
(* extension that the operations on strings never cut ("Nunito", "-",      *)
(* " ", ".", "Bold").  Subset names, which are compared alphabetically,    *)
(* are sequences of character codes.                                       *)
(***************************************************************************)
EXTENDS Integers, Sequences, FiniteSets, TLC

VARIABLES
  rule,     \* name of the rule the driver called last ("" before the first)
  args,     \* the arguments of that call, as they were when it started
  checks,   \* the checks that call opened on fb: <<[id, priority, events]>>
  font,     \* the font object (Font Table View) after the call
  family,   \* the family metadata object after the call
  saved,    \* the save operations the call invoked, in order
  reads,    \* the font tables the call read
  ret,      \* the value the call returned: <<>> is None, <<v>> is v
  raised,   \* the exception that left the call, "" when it returned
  waiting,  \* the collaborator whose answer the call waits for, "" when
            \* the call is over
  state,    \* the web application: the project's state dict, as the last
            \* request left it in memory
  stored,   \* the state dict that save_state wrote last
  request,  \* the last request: [view, method, form, state], state being
            \* p.state as the request found it
  response  \* the answer to it: [body, flash, save_state, sync_and_process]

rules == <<rule, args, checks, font, family, saved, reads, ret, raised, waiting>>

project == <<state, stored, request, response>>

vars == <<rules, project>>

(***************************************************************************)
(* Bounds of the model.                                                    *)
(***************************************************************************)
MaxTableLen == 6      \* len(font['loca']) and len(font['glyf']) are 0..MaxTableLen
MaxAngleOver == 2     \* post.italicAngle ranges AngleLimit + MaxAngleOver both ways

(***************************************************************************)
(* Values of Python.                                                       *)
(***************************************************************************)
None == <<>>
Some(v) == <<v>>

Abs(x) == IF x < 0 THEN -x ELSE x

Range(s) == {s[i] : i \in DOMAIN s}

(***************************************************************************)
(* The result recorder.  Its class is not part of checks.py: new_check     *)
(* opens a check with the default priority, set_priority sets the priority *)
(* of the check that is open, and ok/error/warning/info/skip/hotfix append *)
(* one event to it.  `cs` is the sequence of checks opened so far and the  *)
(* open check is its last element.  A check id is a sequence of tokens.    *)
(***************************************************************************)
Event(k, t, a) == [kind |-> k, text |-> t, args |-> a]

new_check(cs, id) == Append(cs, [id |-> id, priority |-> "NORMAL", events |-> <<>>])

set_priority(cs, level) == [cs EXCEPT ![Len(cs)].priority = level]

record(cs, kind, text, a) ==
  [cs EXCEPT ![Len(cs)].events = Append(@, Event(kind, text, a))]

Kinds(c) == [i \in DOMAIN c.events |-> c.events[i].kind]

CountKind(c, kind) == Cardinality({i \in DOMAIN c.events : c.events[i].kind = kind})

(***************************************************************************)
(* The outcome of one call of a rule.  A rule that does not touch one of   *)
(* the objects leaves it as the driver gave it.  The driver calls a rule   *)
(* when no call is in progress (rule = "").  A call that waits for an       *)
(* answer that never comes is not over: it has neither returned nor        *)
(* raised, and what it did before the wait is all it has done.             *)
(***************************************************************************)
NoFont == [tables |-> {}]
NoFamily == [subsets |-> <<>>, fonts |-> <<>>]

Outcome(cs, fnt, fam, sv, rd, rv, exc) ==
  [checks |-> cs, font |-> fnt, family |-> fam, saved |-> sv,
   reads |-> rd, ret |-> rv, raised |-> exc]

Waiting(cs, collaborator) ==
  [checks |-> cs, font |-> NoFont, family |-> NoFamily, saved |-> <<>>,
   reads |-> {}, ret |-> None, raised |-> "", waiting |-> collaborator]

Idle == rule = ""

Call(name, a, out) ==
  /\ rule' = name
  /\ args' = a
  /\ checks' = out.checks
  /\ font' = out.font
  /\ family' = out.family
  /\ saved' = out.saved
  /\ reads' = out.reads
  /\ ret' = out.ret
  /\ raised' = out.raised
  /\ waiting' = IF "waiting" \in DOMAIN out THEN out.waiting ELSE ""
  /\ UNCHANGED project

(***************************************************************************)
(* check 069: unused data at the end of the glyf table.                    *)
(* f is [tables, loca_len, glyf_len]; font['loca'] and font['glyf'] raise  *)
(* KeyError when the font has no such table.                               *)
(***************************************************************************)
GlyfPadding == 3

unused_data_at_the_end_of_glyf_tableLoose(f) ==
  LET c0 == new_check(<<>>, <<"069">>) IN
  IF "CFF " \in f.tables
  THEN Outcome(record(c0, "SKIP", "This check does not support CFF fonts.", <<>>),
               f, NoFamily, <<>>, {}, None, "")
  ELSE IF "loca" \notin f.tables
  THEN Outcome(c0, f, NoFamily, <<>>, {"loca"}, None, "KeyError")
  ELSE IF "glyf" \notin f.tables
  THEN Outcome(c0, f, NoFamily, <<>>, {"loca", "glyf"}, None, "KeyError")
  ELSE
    LET expected == f.loca_len - 1
        actual == f.glyf_len
        diff == actual - expected
        c1 == IF diff >= GlyfPadding
              THEN record(c0, "ERROR", "Glyf table has unreachable data at the end of the table.",
                          <<expected, actual, diff>>)
              ELSE IF diff < 0
              THEN record(c0, "ERROR", "Loca table references data beyond the end of the glyf table.",
                          <<expected, actual, diff>>)
              ELSE record(c0, "OK", "There is no unused data at the end of the glyf table.", <<>>)
    IN Outcome(c1, f, NoFamily, <<>>, {"loca", "glyf"}, None, "")

unused_data_at_the_end_of_glyf_table(f) ==
  LET c0 == new_check(<<>>, <<"069">>) IN
  IF "CFF " \in f.tables
  THEN Outcome(record(c0, "SKIP", "This check does not support CFF fonts.", <<>>),
               f, NoFamily, <<>>, {}, None, "")
  ELSE IF "loca" \notin f.tables
  THEN Outcome(c0, f, NoFamily, <<>>, {"loca"}, None, "KeyError")
  ELSE IF "glyf" \notin f.tables
  THEN Outcome(c0, f, NoFamily, <<>>, {"loca", "glyf"}, None, "KeyError")
  ELSE
    LET expected == f.loca_len - 1
        actual == f.glyf_len
        diff == actual - expected
        c1 == IF diff > GlyfPadding
              THEN record(c0, "ERROR", "Glyf table has unreachable data at the end of the table.",
                          <<expected, actual, diff>>)
              ELSE IF diff < 0
              THEN record(c0, "ERROR", "Loca table references data beyond the end of the glyf table.",
                          <<expected, actual, diff>>)
              ELSE record(c0, "OK", "There is no unused data at the end of the glyf table.", <<>>)
    IN Outcome(c1, f, NoFamily, <<>>, {"loca", "glyf"}, None, "")

GlyfFonts ==
  [tables : {{"loca", "glyf"}, {"CFF "}, {"CFF ", "loca", "glyf"}, {"loca"}, {"glyf"}, {}},
   loca_len : 0..MaxTableLen, glyf_len : 0..MaxTableLen]

check_unused_data_at_the_end_of_glyf_table ==
  /\ Idle
  /\ \E f \in GlyfFonts :
       Call("check_unused_data_at_the_end_of_glyf_table", [font |-> f],
            unused_data_at_the_end_of_glyf_table(f))

(***************************************************************************)
(* The enumerated style names (fontbakery.constants, not part of           *)
(* checks.py): the nine weight names, "Italic", and each weight name but   *)
(* Regular followed by " Italic".                                          *)
(***************************************************************************)
WeightNames ==
  <<"Thin", "ExtraLight", "Light", "Regular", "Medium", "SemiBold", "Bold",
    "ExtraBold", "Black">>

STYLE_NAMES ==
  {<<w>> : w \in Range(WeightNames)} \cup {<<"Italic">>}
    \cup {<<w, " ", "Italic">> : w \in Range(WeightNames) \ {"Regular"}}

\* sub in s, for a one-token sub: no token holds another token as a substring
Contains(s, tok) == tok \in Range(s)

(***************************************************************************)
(* check 130: post.italicAngle.  `value` is font['post'].italicAngle when  *)
(* the rule starts, `style` the style string, `autofix` is                 *)
(* fb.config['autofix'].  The rule writes the table object and calls no    *)
(* save operation.                                                         *)
(***************************************************************************)
AngleLimit == 20

PostFont(angle) == [tables |-> {"post"}, italicAngle |-> angle]

post_italicAngleNoWrite(value, style, autofix) ==
  LET c0 == new_check(<<>>, <<"130">>)
      positive == value > 0
      c1 == IF ~positive THEN c0
            ELSE IF autofix
                 THEN record(c0, "HOTFIX", "post.italicAngle from {} to {}", <<value, -value>>)
                 ELSE record(c0, "ERROR", "post.italicAngle value must be changed from {} to {}",
                             <<value, -value>>)
      value1 == IF positive THEN -value ELSE value
      steep == Abs(value1) > AngleLimit
      angle2 == IF steep /\ autofix THEN -AngleLimit ELSE value
      c2 == IF ~steep THEN c1
            ELSE IF autofix
                 THEN record(c1, "HOTFIX", "post.italicAngle changed from {} to -20", <<value1>>)
                 ELSE record(c1, "ERROR", "post.italicAngle value must be changed from {} to -20",
                             <<value1>>)
      mismatch == IF Contains(style, "Italic") THEN angle2 = 0 ELSE angle2 # 0
      c3 == IF ~mismatch THEN c2
            ELSE IF Contains(style, "Italic")
                 THEN record(c2, "ERROR", "Font is italic, so post.italicAngle should be non-zero.", <<>>)
                 ELSE record(c2, "ERROR",
                             "Font is not italic, so post.italicAngle should be equal to zero.", <<>>)
      failed == positive \/ steep \/ mismatch
      c4 == IF ~failed THEN record(c3, "OK", "post.italicAngle is {}", <<value1>>) ELSE c3
  IN Outcome(c4, PostFont(angle2), NoFamily, <<>>, {"post"}, None, "")

post_italicAngleClampsUp(value, style, autofix) ==
  LET c0 == new_check(<<>>, <<"130">>)
      positive == value > 0
      \* if value > 0:
      angle1 == IF positive /\ autofix THEN -value ELSE value
      c1 == IF ~positive THEN c0
            ELSE IF autofix
                 THEN record(c0, "HOTFIX", "post.italicAngle from {} to {}", <<value, -value>>)
                 ELSE record(c0, "ERROR", "post.italicAngle value must be changed from {} to {}",
                             <<value, -value>>)
      value1 == IF positive THEN -value ELSE value
      \* if abs(value) > 20:
      steep == Abs(value1) > AngleLimit
      angle2 == IF steep /\ autofix THEN AngleLimit ELSE angle1
      c2 == IF ~steep THEN c1
            ELSE IF autofix
                 THEN record(c1, "HOTFIX", "post.italicAngle changed from {} to -20", <<value1>>)
                 ELSE record(c1, "ERROR", "post.italicAngle value must be changed from {} to -20",
                             <<value1>>)
      \* if "Italic" in style: ... reads font['post'].italicAngle, not value
      mismatch == IF Contains(style, "Italic") THEN angle2 = 0 ELSE angle2 # 0
      c3 == IF ~mismatch THEN c2
            ELSE IF Contains(style, "Italic")
                 THEN record(c2, "ERROR", "Font is italic, so post.italicAngle should be non-zero.", <<>>)
                 ELSE record(c2, "ERROR",
                             "Font is not italic, so post.italicAngle should be equal to zero.", <<>>)
      failed == positive \/ steep \/ mismatch
      c4 == IF ~failed THEN record(c3, "OK", "post.italicAngle is {}", <<value1>>) ELSE c3
  IN Outcome(c4, PostFont(angle2), NoFamily, <<>>, {"post"}, None, "")

post_italicAngle(value, style, autofix) ==
  LET c0 == new_check(<<>>, <<"130">>)
      positive == value > 0
      \* if value > 0:
      angle1 == IF positive /\ autofix THEN -value ELSE value
      c1 == IF ~positive THEN c0
            ELSE IF autofix
                 THEN record(c0, "HOTFIX", "post.italicAngle from {} to {}", <<value, -value>>)
                 ELSE record(c0, "ERROR", "post.italicAngle value must be changed from {} to {}",
                             <<value, -value>>)
      value1 == IF positive THEN -value ELSE value
      \* if abs(value) > 20:
      steep == Abs(value1) > AngleLimit
      angle2 == IF steep /\ autofix THEN -AngleLimit ELSE angle1
      c2 == IF ~steep THEN c1
            ELSE IF autofix
                 THEN record(c1, "HOTFIX", "post.italicAngle changed from {} to -20", <<value1>>)
                 ELSE record(c1, "ERROR", "post.italicAngle value must be changed from {} to -20",
                             <<value1>>)
      \* if "Italic" in style: ... reads font['post'].italicAngle, not value
      mismatch == IF Contains(style, "Italic") THEN angle2 = 0 ELSE angle2 # 0
      c3 == IF ~mismatch THEN c2
            ELSE IF Contains(style, "Italic")
                 THEN record(c2, "ERROR", "Font is italic, so post.italicAngle should be non-zero.", <<>>)
                 ELSE record(c2, "ERROR",
                             "Font is not italic, so post.italicAngle should be equal to zero.", <<>>)
      failed == positive \/ steep \/ mismatch
      c4 == IF ~failed THEN record(c3, "OK", "post.italicAngle is {}", <<value1>>) ELSE c3
  IN Outcome(c4, PostFont(angle2), NoFamily, <<>>, {"post"}, None, "")

Angles == (-(AngleLimit + MaxAngleOver))..(AngleLimit + MaxAngleOver)

check_post_italicAngle ==
  /\ Idle
  /\ \E value \in Angles, style \in STYLE_NAMES, autofix \in BOOLEAN :
       Call("check_post_italicAngle",
            [font |-> PostFont(value), style |-> style, autofix |-> autofix],
            post_italicAngle(value, style, autofix))

\* The rule runs once more on the font as its last run left it, with the same
\* style and configuration; `first` is the font that the last run was given.
check_post_italicAngle_again ==
  /\ rule = "check_post_italicAngle"
  /\ Call("check_post_italicAngle",
          [font |-> font, style |-> args.style, autofix |-> args.autofix, first |-> args.font],
          post_italicAngle(font.italicAngle, args.style, args.autofix))

(***************************************************************************)
(* check 087: METADATA.pb subsets are alphabetically ordered.              *)
(* A subset name is a sequence of character codes; Python compares strings *)
(* code by code, a proper prefix being the smaller.                        *)
(***************************************************************************)
MaxSubsets == 3       \* family.subsets holds at most MaxSubsets names
MaxNameLen == 2       \* a subset name has 1..MaxNameLen characters
CharCodes == {1, 2}

RECURSIVE StrLess(_, _)
StrLess(a, b) ==
  IF a = <<>> THEN b # <<>>
  ELSE IF b = <<>> THEN FALSE
  ELSE IF a[1] < b[1] THEN TRUE
  ELSE IF a[1] > b[1] THEN FALSE
  ELSE StrLess(Tail(a), Tail(b))

\* x put into the sorted list s, after the elements that are not greater
RECURSIVE Insert(_, _)
Insert(x, s) ==
  IF s = <<>> THEN <<x>>
  ELSE IF StrLess(x, s[1]) THEN <<x>> \o s
  ELSE <<s[1]>> \o Insert(x, Tail(s))

RECURSIVE sorted(_)
sorted(s) ==
  IF s = <<>> THEN <<>>
  ELSE Insert(s[Len(s)], sorted(SubSeq(s, 1, Len(s) - 1)))

SaveFamily(path, fam) == [op |-> "save_FamilyProto_Message", path |-> path, family |-> fam]

METADATA_subsets_alphabetically_orderedNoDel(path, subsets, autofix) ==
  LET c0 == new_check(<<>>, <<"087">>)
      expected == sorted(subsets)
      fam == [NoFamily EXCEPT !.subsets = subsets]
      fixed == [NoFamily EXCEPT !.subsets = subsets \o expected]
  IN IF subsets # expected
     THEN IF autofix
          THEN Outcome(record(c0, "HOTFIX", "METADATA.pb subsets were not sorted in alphabetical order",
                              <<subsets, expected>>),
                       NoFont, fixed, <<SaveFamily(path, fixed)>>, {}, None, "")
          ELSE Outcome(record(c0, "ERROR", "METADATA.pb subsets are not sorted in alphabetical order",
                              <<subsets, expected>>),
                       NoFont, fam, <<>>, {}, None, "")
     ELSE Outcome(record(c0, "OK", "METADATA.pb subsets are sorted in alphabetical order", <<>>),
                  NoFont, fam, <<>>, {}, None, "")

METADATA_subsets_alphabetically_ordered(path, subsets, autofix) ==
  LET c0 == new_check(<<>>, <<"087">>)
      expected == sorted(subsets)
      fam == [NoFamily EXCEPT !.subsets = subsets]
      \* del family.subsets[:]; family.subsets.extend(expected)
      fixed == [NoFamily EXCEPT !.subsets = <<>> \o expected]
  IN IF subsets # expected
     THEN IF autofix
          THEN Outcome(record(c0, "HOTFIX", "METADATA.pb subsets were not sorted in alphabetical order",
                              <<subsets, expected>>),
                       NoFont, fixed, <<SaveFamily(path, fixed)>>, {}, None, "")
          ELSE Outcome(record(c0, "ERROR", "METADATA.pb subsets are not sorted in alphabetical order",
                              <<subsets, expected>>),
                       NoFont, fam, <<>>, {}, None, "")
     ELSE Outcome(record(c0, "OK", "METADATA.pb subsets are sorted in alphabetical order", <<>>),
                  NoFont, fam, <<>>, {}, None, "")

SeqsUpTo(S, n) == UNION {[1..k -> S] : k \in 0..n}

SubsetNames == SeqsUpTo(CharCodes, MaxNameLen) \ {<<>>}

check_METADATA_subsets_alphabetically_ordered ==
  /\ Idle
  /\ \E subsets \in SeqsUpTo(SubsetNames, MaxSubsets), autofix \in BOOLEAN :
       Call("check_METADATA_subsets_alphabetically_ordered",
            [path |-> "METADATA.pb", family |-> [NoFamily EXCEPT !.subsets = subsets],
             autofix |-> autofix],
            METADATA_subsets_alphabetically_ordered("METADATA.pb", subsets, autofix))

(***************************************************************************)
(* perform_all_fontforge_checks: one sub-check per bit of the validation   *)
(* state that the rule tests, in the order of the source.  The id of a     *)
(* sub-check is "039-" and the first 8 hex digits of the SHA-1 digest of   *)
(* its description; the digest is represented by the description, distinct *)
(* descriptions having distinct digests here.                              *)
(***************************************************************************)
MaxBit == 24          \* validation words have bits 0..MaxBit
MaxBitsSet == 2       \* words with at most MaxBitsSet bits set, or cleared

RECURSIVE Pow2(_)
Pow2(n) == IF n = 0 THEN 1 ELSE 2 * Pow2(n - 1)

\* a & b on non-negative integers
RECURSIVE BitAnd(_, _)
BitAnd(a, b) ==
  IF a = 0 \/ b = 0 THEN 0
  ELSE (a % 2) * (b % 2) + 2 * BitAnd(a \div 2, b \div 2)

short_hash(description) == description

ff_check(cs, description, condition, err_msg, ok_msg) ==
  LET c0 == new_check(cs, <<"039-", short_hash(description)>>)
  IN IF condition = FALSE
     THEN record(c0, "ERROR", err_msg, <<>>)
     ELSE record(c0, "OK", ok_msg, <<>>)

FFEntry(d, m, e, o) == [description |-> d, mask |-> m, err_msg |-> e, ok_msg |-> o]

FFChecks ==
  << FFEntry("Contours are closed?", 2,
             "Contours are not closed!", "Contours are closed."),
     FFEntry("Contours do not intersect", 4,
             "There are countour intersections!", "Contours do not intersect."),
     FFEntry("Contours have correct directions", 8,
             "Contours have incorrect directions!", "Contours have correct directions."),
     FFEntry("References in the glyph haven't been flipped", 16,
             "References in the glyph have been flipped!",
             "References in the glyph haven't been flipped."),
     FFEntry("Glyphs have points at extremas", 32,
             "Glyphs do not have points at extremas!", "Glyphs have points at extremas."),
     FFEntry("Glyph names referred to from glyphs present in the font", 64,
             "Glyph names referred to from glyphs not present in the font!",
             "Glyph names referred to from glyphs present in the font."),
     FFEntry("Points (or control points) are not too far apart", 262144,
             "Points (or control points) are too far apart!",
             "Points (or control points) are not too far apart."),
     FFEntry("Not more than 1,500 points in any glyph (a PostScript limit)", 128,
             "There are glyphs with more than 1,500 points!Exceeds a PostScript limit.",
             "Not more than 1,500 points in any glyph (a PostScript limit)."),
     FFEntry("PostScript has a limit of 96 hints in glyphs", 256,
             "Exceeds PostScript limit of 96 hints per glyph",
             "Font respects PostScript limit of 96 hints per glyph"),
     FFEntry("Font doesn't have invalid glyph names", 512,
             "Font has invalid glyph names!", "Font doesn't have invalid glyph names."),
     FFEntry("Glyphs have allowed numbers of points defined in maxp", 1024,
             "Glyphs exceed allowed numbers of points defined in maxp",
             "Glyphs have allowed numbers of points defined in maxp."),
     FFEntry("Glyphs have allowed numbers of paths defined in maxp", 2048,
             "Glyphs exceed allowed numbers of paths defined in maxp!",
             "Glyphs have allowed numbers of paths defined in maxp."),
     FFEntry("Composite glyphs have allowed numbers of points defined in maxp?", 4096,
             "Composite glyphs exceed allowed numbers of points defined in maxp!",
             "Composite glyphs have allowed numbers of points defined in maxp."),
     FFEntry("Composite glyphs have allowed numbers of paths defined in maxp", 8192,
             "Composite glyphs exceed allowed numbers of paths defined in maxp!",
             "Composite glyphs have allowed numbers of paths defined in maxp."),
     FFEntry("Glyphs instructions have valid lengths", 16384,
             "Glyphs instructions have invalid lengths!",
             "Glyphs instructions have valid lengths."),
     FFEntry("Points in glyphs are integer aligned", 524288,
             "Points in glyphs are not integer aligned!",
             "Points in glyphs are integer aligned."),
     FFEntry("Glyphs have all required anchors.", 1048576,
             "Glyphs do not have all required anchors!", "Glyphs have all required anchors."),
     FFEntry("Glyph names are unique?", 2097152,
             "Glyph names are not unique!", "Glyph names are unique."),
     FFEntry("Unicode code points are unique?", 4194304,
             "Unicode code points are not unique!", "Unicode code points are unique."),
     FFEntry("Do hints overlap?", 8388608,
             "Hints should NOT overlap!", "Hinds do not overlap.") >>

\* the mask the i-th call of ff_check tests
ff_maskTypo(i) == IF i = 1 THEN 1 ELSE FFChecks[i].mask

ff_mask(i) == FFChecks[i].mask

\* bool(validation_state & mask) is False
ff_conditionInverted(validation_state, mask) == (BitAnd(validation_state, mask) # 0) = TRUE

ff_condition(validation_state, mask) == (BitAnd(validation_state, mask) # 0) = FALSE

RECURSIVE ff_checks_from(_, _, _)
ff_checks_from(cs, validation_state, i) ==
  IF i > Len(FFChecks) THEN cs
  ELSE ff_checks_from(
         ff_check(cs, FFChecks[i].description,
                  ff_condition(validation_state, ff_mask(i)),
                  FFChecks[i].err_msg, FFChecks[i].ok_msg),
         validation_state, i + 1)

fontforge_checks(validation_state) ==
  Outcome(ff_checks_from(<<>>, validation_state, 1), NoFont, NoFamily, <<>>, {}, None, "")

\* the words with at most k bits set
RECURSIVE WordsWithBits(_)
WordsWithBits(k) ==
  IF k = 0 THEN {0}
  ELSE LET W == WordsWithBits(k - 1)
       IN W \cup {w + Pow2(b) : <<w, b>> \in
                    {x \in W \X (0..MaxBit) : (x[1] \div Pow2(x[2])) % 2 = 0}}

AllBits == Pow2(MaxBit + 1) - 1

ValidationStates ==
  WordsWithBits(MaxBitsSet) \cup {AllBits - w : w \in WordsWithBits(MaxBitsSet)}

perform_all_fontforge_checks ==
  /\ Idle
  /\ \E validation_state \in ValidationStates :
       Call("perform_all_fontforge_checks", [validation_state |-> validation_state],
            fontforge_checks(validation_state))

(***************************************************************************)
(* Operations on strings (sequences of tokens).                            *)
(***************************************************************************)
\* s.replace(tok, '')
Without(s, tok) == SelectSeq(s, LAMBDA t : t # tok)

\* the last index of tok in s, 0 when s has none
LastIndex(s, tok) ==
  LET I == {i \in DOMAIN s : s[i] = tok} IN
  IF I = {} THEN 0 ELSE CHOOSE i \in I : \A j \in I : j <= i

FirstIndex(s, tok) ==
  LET I == {i \in DOMAIN s : s[i] = tok} IN
  IF I = {} THEN 0 ELSE CHOOSE i \in I : \A j \in I : i <= j

\* os.path.split(p)[1]: what follows the last "/"
path_tail(p) == SubSeq(p, LastIndex(p, "/") + 1, Len(p))

\* os.path.splitext(p)[0]: p up to its last ".", unless only dots precede it
splitext_root(p) ==
  LET i == LastIndex(p, ".") IN
  IF i > 0 /\ \E j \in 1..(i - 1) : p[j] # "." THEN SubSeq(p, 1, i - 1) ELSE p

\* s.split('-'): the segments between the "-" tokens
RECURSIVE split(_, _)
split(s, sep) ==
  LET i == FirstIndex(s, sep) IN
  IF i = 0 THEN <<s>>
  ELSE <<SubSeq(s, 1, i - 1)>> \o split(SubSeq(s, i + 1, Len(s)), sep)

(***************************************************************************)
(* check 001: the file is named canonically.                               *)
(***************************************************************************)
MaxBaseLen == 5       \* a file's base name has at most MaxBaseLen tokens

style_file_names == {Without(name, " ") : name \in STYLE_NAMES}

\* '-' in basename and basename.split('-')[1] in style_file_names
named_canonically(basename) ==
  /\ Contains(basename, "-")
  /\ split(basename, "-")[2] \in style_file_names

file_is_named_canonically(font_fname) ==
  LET c0 == set_priority(new_check(<<>>, <<"001">>), "CRITICAL")
      filename == path_tail(font_fname)
      basename == splitext_root(filename)
  IN IF named_canonically(basename)
     THEN Outcome(record(c0, "OK", "{} is named canonically", <<font_fname>>),
                  NoFont, NoFamily, <<>>, {}, Some(TRUE), "")
     ELSE Outcome(record(c0, "ERROR", "Style name used in {} is not canonical.", <<font_fname>>),
                  NoFont, NoFamily, <<>>, {}, Some(FALSE), "")

BaseTokens == {"Nunito", "Regular", "Bold", "Italic", "-", "_"}

FontFolders == {<<>>, <<"my", "-", "Regular", "/">>}

FontFileNames ==
  {d \o b \o <<".", "ttf">> : d \in FontFolders, b \in SeqsUpTo(BaseTokens, MaxBaseLen)}

check_file_is_named_canonically ==
  /\ Idle
  /\ \E font_fname \in FontFileNames :
       Call("check_file_is_named_canonically", [font_fname |-> font_fname],
            file_is_named_canonically(font_fname))

(***************************************************************************)
(* check 105: the filename of METADATA.pb is canonical.                    *)
(* WEIGHT_VALUE_TO_NAME is a dictionary of fontbakery.constants, not part  *)
(* of checks.py: 100 "Thin", 200 "ExtraLight", 300 "Light", 400 "",        *)
(* 500 "Medium", 600 "SemiBold", 700 "Bold", 800 "ExtraBold", 900 "Black". *)
(* d.get(k) is None when d has no key k; '%s' % None is 'None'.            *)
(***************************************************************************)
MaxHundreds == 10     \* FontMetadata.weight is a multiple of 100 up to 100 * MaxHundreds

WEIGHT_VALUE_TO_NAME(weight) ==
  IF weight = 400 THEN Some(<<>>)
  ELSE IF weight \in {100 * k : k \in 1..Len(WeightNames)}
       THEN Some(<<WeightNames[weight \div 100]>>)
       ELSE None

style_names(style) ==
  IF style = <<"normal">> THEN Some(<<>>)
  ELSE IF style = <<"italic">> THEN Some(<<"Italic">>)
  ELSE None

\* '%s' % x
Str(x) == IF x = None THEN <<"None">> ELSE x[1]

create_canonical_filename(f) ==
  LET familyname == Without(f.name, " ")
      style_weight0 == Str(WEIGHT_VALUE_TO_NAME(f.weight)) \o Str(style_names(f.style))
      style_weight == IF style_weight0 = <<>> THEN <<"Regular">> ELSE style_weight0
  IN familyname \o <<"-">> \o style_weight \o <<".", "ttf">>

Filename_is_set_canonically(f) ==
  LET c0 == new_check(<<>>, <<"105">>)
      canonical_filename == create_canonical_filename(f)
      fam == [NoFamily EXCEPT !.fonts = <<f>>]
  IN IF canonical_filename # f.filename
     THEN Outcome(record(c0, "ERROR", "METADATA.pb: filename field does not match canonical name",
                         <<f.filename, canonical_filename>>),
                  NoFont, fam, <<>>, {}, None, "")
     ELSE Outcome(record(c0, "OK", "Filename in METADATA.pb is set canonically.", <<>>),
                  NoFont, fam, <<>>, {}, None, "")

SuffixTokens == Range(WeightNames) \cup {"Italic", "None"}

MetadataFilenames ==
  {n \o <<"-">> \o x \o <<".", "ttf">> :
     n \in {<<"Inter">>, <<"Open", "Sans">>, <<"Open", " ", "Sans">>},
     x \in SeqsUpTo(SuffixTokens, 2)}

FilenameFonts ==
  [name : {<<"Inter">>, <<"Open", " ", "Sans">>},
   weight : {100 * k : k \in 0..MaxHundreds},
   style : {<<"normal">>, <<"italic">>, <<"oblique">>},
   filename : MetadataFilenames]

check_Filename_is_set_canonically ==
  /\ Idle
  /\ \E f \in FilenameFonts :
       Call("check_Filename_is_set_canonically", [f |-> f], Filename_is_set_canonically(f))

(***************************************************************************)
(* check 073: MaxAdvanceWidth of hhea against the widths of hmtx.          *)
(* `widths` are the advance widths g[0] of font['hmtx'].metrics.values().  *)
(* On a mismatch the rule calls fb.error with the unformatted text and     *)
(* applies % to what fb.error returned; the recorder's methods return      *)
(* None, and None % tuple raises TypeError.                                *)
(***************************************************************************)
MaxGlyphs == 3        \* hmtx holds at most MaxGlyphs metrics
MaxWidth == 2         \* advance widths are 0..MaxWidth

Max(a, b) == IF a >= b THEN a ELSE b

\* the loop over font['hmtx'].metrics.values()
RECURSIVE hmtx_advance_width_max(_, _)
hmtx_advance_width_max(acc, widths) ==
  IF widths = <<>> THEN acc
  ELSE hmtx_advance_width_max(
         IF acc = None THEN Some(Max(0, widths[1])) ELSE Some(Max(widths[1], acc[1])),
         Tail(widths))

HmtxFont(hhea_max, widths) ==
  [tables |-> {"hhea", "hmtx"}, advanceWidthMax |-> hhea_max, widths |-> widths]

MaxAdvanceWidth_is_consistent(hhea_max, widths) ==
  LET c0 == new_check(<<>>, <<"073">>)
      hmtx_max == hmtx_advance_width_max(None, widths)
      f == HmtxFont(hhea_max, widths)
  IN IF hmtx_max = None
     THEN Outcome(record(c0, "ERROR", "Failed to find advance width data in HMTX table!", <<>>),
                  f, NoFamily, <<>>, {"hhea", "hmtx"}, None, "")
     ELSE IF hmtx_max[1] # hhea_max
     THEN Outcome(record(c0, "ERROR",
                         "AdvanceWidthMax mismatch: expected %s (from hmtx); got %s (from hhea)",
                         <<>>),
                  f, NoFamily, <<>>, {"hhea", "hmtx"}, None, "TypeError")
     ELSE Outcome(record(c0, "OK",
                         "MaxAdvanceWidth is consistent with values in the Hmtx and Hhea tables.",
                         <<>>),
                  f, NoFamily, <<>>, {"hhea", "hmtx"}, None, "")

check_MaxAdvanceWidth_is_consistent_with_Hmtx_and_Hhea_tables ==
  /\ Idle
  /\ \E hhea_max \in 0..MaxWidth, widths \in SeqsUpTo(0..MaxWidth, MaxGlyphs) :
       Call("check_MaxAdvanceWidth_is_consistent_with_Hmtx_and_Hhea_tables",
            [font |-> HmtxFont(hhea_max, widths)],
            MaxAdvanceWidth_is_consistent(hhea_max, widths))

(***************************************************************************)
(* check 084: the style:weight pairs of METADATA.pb are unique.            *)
(* The key '%s:%s' % (f.style, f.weight) of a font is the pair             *)
(* <<style, weight>>.  Duplicated pairs are reported with logging.error,   *)
(* which is no method of the recorder: no event is recorded.               *)
(***************************************************************************)
MaxFonts == 3         \* family.fonts holds at most MaxFonts records

styleweight(f) == <<f.style, f.weight>>

style_weight_pairs(fonts) == {styleweight(fonts[i]) : i \in DOMAIN fonts}

METADATA_check_style_weight_pairs_are_unique(fonts) ==
  LET c0 == new_check(<<>>, <<"084">>)
      pairs == style_weight_pairs(fonts)
      fam == [NoFamily EXCEPT !.fonts = fonts]
  IN IF Cardinality(pairs) # Len(fonts)
     THEN Outcome(c0, NoFont, fam, <<>>, {}, None, "")
     ELSE Outcome(record(c0, "OK", "METADATA.pb 'fonts' field only has unique style:weight pairs",
                         <<>>),
                  NoFont, fam, <<>>, {}, None, "")

StyleWeightFonts == [style : {<<"normal">>, <<"italic">>}, weight : {400, 700}]

check_METADATA_check_style_weight_pairs_are_unique ==
  /\ Idle
  /\ \E fonts \in SeqsUpTo(StyleWeightFonts, MaxFonts) :
       Call("check_METADATA_check_style_weight_pairs_are_unique",
            [family |-> [NoFamily EXCEPT !.fonts = fonts]],
            METADATA_check_style_weight_pairs_are_unique(fonts))

(***************************************************************************)
(* check 119: ttfautohint's x-height increase, old release against new.    *)
(* A font is [tables, xheight]: xheight is the value the fpgm program      *)
(* holds, None when it holds no such instruction.  The helper              *)
(* ttfauto_fpgm_xheight_rounding(fb, fpgm_tbl, which) is not part of       *)
(* checks.py: it returns the value it finds, None when it finds none, and  *)
(* it is handed fb, so that it may report the missing instruction as a     *)
(* warning (`warns`).                                                      *)
(***************************************************************************)
MaxXHeight == 2       \* x-height increase values are 0..MaxXHeight

ttfauto_fpgm_xheight_rounding(cs, fpgm_xheight, which, warns) ==
  [checks |-> IF fpgm_xheight = None /\ warns
              THEN record(cs, "WARNING", "No instruction for xheight rounding found on the {} font",
                          <<which>>)
              ELSE cs,
   value |-> fpgm_xheight]

regression_ttfauto_xheight_increase(new_font, old_font, warns) ==
  LET c0 == new_check(<<>>, <<"119">>)
      n == IF "fpgm" \in new_font.tables
           THEN ttfauto_fpgm_xheight_rounding(c0, new_font.xheight, "this fontfile", warns)
           ELSE [checks |-> c0, value |-> None]
      o == IF "fpgm" \in old_font.tables
           THEN ttfauto_fpgm_xheight_rounding(n.checks, old_font.xheight, "previous release", warns)
           ELSE [checks |-> n.checks, value |-> None]
      rd == {"fpgm" : x \in {new_font, old_font} \cap {g \in {new_font, old_font} : "fpgm" \in g.tables}}
  IN IF n.value # o.value
     THEN Outcome(record(o.checks, "ERROR",
                         "TTFAutohint --increase-x-height is %s. It should match the previous version's value %s",
                         <<n.value, o.value>>),
                  new_font, NoFamily, <<>>, rd, None, "")
     ELSE Outcome(record(o.checks, "OK",
                         "TTFAutohint --increase-x-height is the same as the previous release, %s",
                         <<n.value>>),
                  new_font, NoFamily, <<>>, rd, None, "")

FpgmFonts ==
  {[tables |-> {}, xheight |-> None]}
    \cup {[tables |-> {"fpgm"}, xheight |-> x] : x \in {None} \cup {Some(v) : v \in 0..MaxXHeight}}

check_regression_ttfauto_xheight_increase ==
  /\ Idle
  /\ \E new_font \in FpgmFonts, old_font \in FpgmFonts, warns \in BOOLEAN :
       Call("check_regression_ttfauto_xheight_increase",
            [new_font |-> new_font, old_font |-> old_font, warns |-> warns],
            regression_ttfauto_xheight_increase(new_font, old_font, warns))

(***************************************************************************)
(* check 076: glyphs have unique unicode codepoints.                       *)
(* font['cmap'].tables is a sequence of subtables [isUnicode, cmap]; the   *)
(* cmap of a subtable is a Python dict from code points to glyph names, a  *)
(* function on the code points it maps.                                    *)
(***************************************************************************)
MaxSubtables == 2     \* a font has at most MaxSubtables cmap subtables

Codepoints == {65, 8364}     \* "A" and the Euro sign, U+20AC

GlyphNames == {"A", "Euro"}

\* The dict `codepoints` of one subtable when its inner loop ends:
\* codepoints.setdefault(codepoint, set()).add(name) for every item.
subtable_codepoints(subtable) ==
  [value \in DOMAIN subtable.cmap |->
     {subtable.cmap[codepoint] : codepoint \in {c \in DOMAIN subtable.cmap : c = value}}]

\* One error per value of `codepoints` that holds two names or more, the
\* values taken in ascending order.
RECURSIVE codepoint_errors(_, _, _)
codepoint_errors(cs, codepoints, values) ==
  IF values = {} THEN cs
  ELSE LET value == CHOOSE v \in values : \A w \in values : v <= w
           c1 == IF Cardinality(codepoints[value]) >= 2
                 THEN record(cs, "ERROR",
                             "These glyphs carry the same unicode value {}: {}",
                             <<value, codepoints[value]>>)
                 ELSE cs
       IN codepoint_errors(c1, codepoints, values \ {value})

RECURSIVE unique_codepoints_from(_, _, _)
unique_codepoints_from(cs, tables, i) ==
  IF i > Len(tables) THEN cs
  ELSE LET codepoints == subtable_codepoints(tables[i])
           c1 == IF tables[i].isUnicode
                 THEN codepoint_errors(cs, codepoints, DOMAIN codepoints)
                 ELSE cs
       IN unique_codepoints_from(c1, tables, i + 1)

glyphs_have_unique_unicode_codepoints(f) ==
  LET c0 == new_check(<<>>, <<"076">>)
      c1 == unique_codepoints_from(c0, f.cmap, 1)
      failed == c1 # c0
      c2 == IF ~failed
            THEN record(c1, "OK", "All glyphs have unique unicode codepoint assignments.", <<>>)
            ELSE c1
  IN Outcome(c2, f, NoFamily, <<>>, {"cmap"}, None, "")

CmapSubtables ==
  UNION {[isUnicode : BOOLEAN, cmap : [D -> GlyphNames]] : D \in SUBSET Codepoints}

CmapFonts ==
  {[tables |-> {"cmap"}, cmap |-> t] : t \in SeqsUpTo(CmapSubtables, MaxSubtables)}

check_glyphs_have_unique_unicode_codepoints ==
  /\ Idle
  /\ \E f \in CmapFonts :
       Call("check_glyphs_have_unique_unicode_codepoints", [font |-> f],
            glyphs_have_unique_unicode_codepoints(f))

(***************************************************************************)
(* check 065: kerning info for non-ligated sequences.                      *)
(* A font is [tables, ligatures, Lookup].  `ligatures` is the dict that    *)
(* get_all_ligatures(font) returns: each first component of a ligature     *)
(* with the list of the second components of its ligatures.  checks.py     *)
(* calls get_all_ligatures and neither defines nor imports it: `bound`     *)
(* tells whether the name is bound in the module when the rule runs, the   *)
(* call raising NameError when it is not.  Lookup is                       *)
(* font["GPOS"].table.LookupList.Lookup; a pair-adjustment subtable is     *)
(* [Coverage, PairSet], PairSet[i] being the second glyphs of the pairs    *)
(* whose first glyph is Coverage[i].                                       *)
(***************************************************************************)
MaxLookups == 1       \* the GPOS table has at most MaxLookups lookups

get_all_ligatures(f) == f.ligatures

\* pairpos deletes the entry of `glyph`: the glyph is covered at an index i,
\* PairSet[i] exists (the exception of a missing PairSet is passed over) and
\* one of its pairs has a second glyph in all_ligatures[glyph].  After the
\* `del` the next look at all_ligatures[glyph] raises KeyError, which the
\* same `except` passes over.
pairpos_deletes(all_ligatures, pairpos, glyph) ==
  \E i \in DOMAIN pairpos.Coverage :
    /\ pairpos.Coverage[i] = glyph
    /\ i \in DOMAIN pairpos.PairSet
    /\ \E k \in DOMAIN pairpos.PairSet[i] :
         pairpos.PairSet[i][k] \in Range(all_ligatures[glyph])

look_for_nonligated_kern_info(all_ligatures, table) ==
  LET deleted == {glyph \in DOMAIN all_ligatures :
                    \E p \in DOMAIN table.SubTable :
                      pairpos_deletes(all_ligatures, table.SubTable[p], glyph)}
  IN [glyph \in DOMAIN all_ligatures \ deleted |-> all_ligatures[glyph]]

RECURSIVE gpos_lookups_from(_, _, _)
gpos_lookups_from(all_ligatures, Lookup, n) ==
  IF n > Len(Lookup) THEN all_ligatures
  ELSE gpos_lookups_from(IF Lookup[n].LookupType = 2
                         THEN look_for_nonligated_kern_info(all_ligatures, Lookup[n])
                         ELSE all_ligatures,
                         Lookup, n + 1)

\* The list of "first_second" names, as the set of the pairs it names.
ligatures_str(ligatures) ==
  UNION {{<<first, second>> : second \in Range(ligatures[first])} : first \in DOMAIN ligatures}

nonligated_sequences_kerning_info(f, has_kerning_info, bound) ==
  LET c0 == new_check(<<>>, <<"065">>)
      all_ligatures == gpos_lookups_from(get_all_ligatures(f), f.Lookup, 1)
  IN IF ~has_kerning_info
     THEN Outcome(record(c0, "SKIP", "This font lacks kerning info.", <<>>),
                  f, NoFamily, <<>>, {}, None, "")
     ELSE IF ~bound
     THEN Outcome(c0, f, NoFamily, <<>>, {}, None, "NameError")
     ELSE IF DOMAIN all_ligatures # {}
     THEN Outcome(record(c0, "ERROR",
                         "GPOS table lacks kerning info for the following non-ligated sequences: {}",
                         <<ligatures_str(all_ligatures)>>),
                  f, NoFamily, <<>>, {"GSUB", "GPOS"}, None, "")
     ELSE Outcome(record(c0, "OK", "GPOS table provides kerning info for all non-ligated sequences.", <<>>),
                  f, NoFamily, <<>>, {"GSUB", "GPOS"}, None, "")

Ligatures ==
  UNION {[D -> {<<"i">>, <<"i", "l">>}] : D \in SUBSET {"f", "t"}}

PairPositionings ==
  [Coverage : {<<"f">>, <<"t">>, <<"f", "t">>},
   PairSet : SeqsUpTo({<<"i">>, <<"l">>}, 2)]

GposFonts ==
  [tables : {{"GSUB", "GPOS"}},
   ligatures : Ligatures,
   Lookup : SeqsUpTo([LookupType : {2, 9}, SubTable : SeqsUpTo(PairPositionings, 1)],
                     MaxLookups)]

check_nonligated_sequences_kerning_info ==
  /\ Idle
  /\ \E f \in GposFonts, has_kerning_info \in BOOLEAN, bound \in BOOLEAN :
       Call("check_nonligated_sequences_kerning_info",
            [font |-> f, has_kerning_info |-> has_kerning_info, bound |-> bound],
            nonligated_sequences_kerning_info(f, has_kerning_info, bound))

(***************************************************************************)
(* checks 088 and 089: the copyright notice and the family name are the    *)
(* same in all the fonts of METADATA.pb.  Both rules run the same loop,    *)
(* over font_metadata.copyright and over font_metadata.name: `values` is   *)
(* the list of that field over family.fonts.  A string is a sequence of    *)
(* tokens; the empty string is false in a condition.                       *)
(***************************************************************************)
RECURSIVE field_values_fail(_, _, _, _)
field_values_fail(previous, fail, values, i) ==
  IF i > Len(values) THEN fail
  ELSE field_values_fail(values[i],
                         fail \/ (previous # <<>> /\ values[i] # previous),
                         values, i + 1)

Copyright_notice_is_the_same_in_all_fonts(fam) ==
  LET c0 == new_check(<<>>, <<"088">>)
      fail == field_values_fail(<<>>, FALSE, [i \in DOMAIN fam.fonts |-> fam.fonts[i].copyright], 1)
  IN IF fail
     THEN Outcome(record(c0, "ERROR", "METADATA.pb: Copyright field value is inconsistent across family", <<>>),
                  NoFont, fam, <<>>, {}, None, "")
     ELSE Outcome(record(c0, "OK", "Copyright is consistent across family", <<>>),
                  NoFont, fam, <<>>, {}, None, "")

METADATA_family_values_are_all_the_same(fam) ==
  LET c0 == new_check(<<>>, <<"089">>)
      fail == field_values_fail(<<>>, FALSE, [i \in DOMAIN fam.fonts |-> fam.fonts[i].name], 1)
  IN IF fail
     THEN Outcome(record(c0, "ERROR",
                         "METADATA.pb: Family name is not the same in all metadata 'fonts' items.", <<>>),
                  NoFont, fam, <<>>, {}, None, "")
     ELSE Outcome(record(c0, "OK",
                         "METADATA.pb: Family name is the same in all metadata 'fonts' items.", <<>>),
                  NoFont, fam, <<>>, {}, None, "")

FieldValues == {<<>>, <<"A">>, <<"B">>}

check_Copyright_notice_is_the_same_in_all_fonts ==
  /\ Idle
  /\ \E fonts \in SeqsUpTo([copyright : FieldValues], MaxFonts) :
       Call("check_Copyright_notice_is_the_same_in_all_fonts",
            [family |-> [NoFamily EXCEPT !.fonts = fonts]],
            Copyright_notice_is_the_same_in_all_fonts([NoFamily EXCEPT !.fonts = fonts]))

check_METADATA_family_values_are_all_the_same ==
  /\ Idle
  /\ \E fonts \in SeqsUpTo([name : FieldValues], MaxFonts) :
       Call("check_METADATA_family_values_are_all_the_same",
            [family |-> [NoFamily EXCEPT !.fonts = fonts]],
            METADATA_family_values_are_all_the_same([NoFamily EXCEPT !.fonts = fonts]))

(***************************************************************************)
(* check 090: the family has a Regular style.  The rule returns `found`.   *)
(***************************************************************************)
RECURSIVE regular_found(_, _, _)
regular_found(found, fonts, i) ==
  IF i > Len(fonts) THEN found
  ELSE regular_found(found \/ (fonts[i].weight = 400 /\ fonts[i].style = <<"normal">>),
                     fonts, i + 1)

font_has_regular_style(fam) ==
  LET c0 == new_check(<<>>, <<"090">>)
      found == regular_found(FALSE, fam.fonts, 1)
  IN IF found
     THEN Outcome(record(c0, "OK", "Font has a Regular style.", <<>>),
                  NoFont, fam, <<>>, {}, Some(found), "")
     ELSE Outcome(record(c0, "ERROR",
                         "This font lacks a Regular (style: normal and weight: 400) as required by GWF standards.",
                         <<>>),
                  NoFont, fam, <<>>, {}, Some(found), "")

check_font_has_regular_style ==
  /\ Idle
  /\ \E fonts \in SeqsUpTo(StyleWeightFonts, MaxFonts) :
       Call("check_font_has_regular_style",
            [family |-> [NoFamily EXCEPT !.fonts = fonts]],
            font_has_regular_style([NoFamily EXCEPT !.fonts = fonts]))

(***************************************************************************)
(* check 117: the version number has not decreased since the previous      *)
(* release.  A font is [tables, fontRevision]; revisions are counted in    *)
(* steps of the smallest difference between two of them.                   *)
(***************************************************************************)
MaxRevision == 2      \* head.fontRevision is 0..MaxRevision

regression_v_number_increasedStrict(new_font, old_font) ==
  LET c0 == new_check(<<>>, <<"117">>)
      new_v_number == new_font.fontRevision
      old_v_number == old_font.fontRevision
  IN IF new_v_number <= old_v_number
     THEN Outcome(record(c0, "ERROR", "Version number %s is less than or equal to old version %s",
                         <<new_v_number, old_v_number>>),
                  new_font, NoFamily, <<>>, {"head"}, None, "")
     ELSE Outcome(record(c0, "OK", "Version number %s is greater than old version %s",
                         <<new_v_number, old_v_number>>),
                  new_font, NoFamily, <<>>, {"head"}, None, "")

regression_v_number_increased(new_font, old_font) ==
  LET c0 == new_check(<<>>, <<"117">>)
      new_v_number == new_font.fontRevision
      old_v_number == old_font.fontRevision
  IN IF new_v_number < old_v_number
     THEN Outcome(record(c0, "ERROR", "Version number %s is less than or equal to old version %s",
                         <<new_v_number, old_v_number>>),
                  new_font, NoFamily, <<>>, {"head"}, None, "")
     ELSE Outcome(record(c0, "OK", "Version number %s is greater than old version %s",
                         <<new_v_number, old_v_number>>),
                  new_font, NoFamily, <<>>, {"head"}, None, "")

HeadFonts == [tables : {{"head"}}, fontRevision : 0..MaxRevision]

check_regression_v_number_increased ==
  /\ Idle
  /\ \E new_font \in HeadFonts, old_font \in HeadFonts :
       Call("check_regression_v_number_increased",
            [new_font |-> new_font, old_font |-> old_font],
            regression_v_number_increased(new_font, old_font))

(***************************************************************************)
(* check 118: the glyphs are similar to those of the previous release.     *)
(* glyphs_surface_area(font) is not part of checks.py: it returns a dict   *)
(* from the glyph names of the font to their surface areas, kept here in   *)
(* the font as `areas`.  An area is a signed real number, kept as its      *)
(* count of half units (17 is the area 8.5); int() cuts its fraction off,  *)
(* towards zero.                                                           *)
(***************************************************************************)
AreaThreshold == 8000

glyphs_surface_area(f) == f.areas

int(halves) == IF halves >= 0 THEN halves \div 2 ELSE -((-halves) \div 2)

regression_glyphs_structureAtLeast(new_font, old_font) ==
  LET c0 == new_check(<<>>, <<"118">>)
      new_glyphs == glyphs_surface_area(new_font)
      old_glyphs == glyphs_surface_area(old_font)
      shared_glyphs == DOMAIN new_glyphs \cap DOMAIN old_glyphs
      bad_glyphs == {glyph \in shared_glyphs :
                       Abs(int(new_glyphs[glyph]) - int(old_glyphs[glyph])) >= AreaThreshold}
  IN IF bad_glyphs # {}
     THEN Outcome(record(c0, "ERROR", "Following glyphs differ greatly from previous version: [%s]",
                         <<bad_glyphs>>),
                  new_font, NoFamily, <<>>, {"glyf"}, None, "")
     ELSE Outcome(record(c0, "OK", "Yes, the glyphs are similar in comparison to the previous version.",
                         <<>>),
                  new_font, NoFamily, <<>>, {"glyf"}, None, "")

regression_glyphs_structure(new_font, old_font) ==
  LET c0 == new_check(<<>>, <<"118">>)
      new_glyphs == glyphs_surface_area(new_font)
      old_glyphs == glyphs_surface_area(old_font)
      shared_glyphs == DOMAIN new_glyphs \cap DOMAIN old_glyphs
      bad_glyphs == {glyph \in shared_glyphs :
                       Abs(int(new_glyphs[glyph]) - int(old_glyphs[glyph])) > AreaThreshold}
  IN IF bad_glyphs # {}
     THEN Outcome(record(c0, "ERROR", "Following glyphs differ greatly from previous version: [%s]",
                         <<bad_glyphs>>),
                  new_font, NoFamily, <<>>, {"glyf"}, None, "")
     ELSE Outcome(record(c0, "OK", "Yes, the glyphs are similar in comparison to the previous version.",
                         <<>>),
                  new_font, NoFamily, <<>>, {"glyf"}, None, "")

\* The areas -0.5, 0, 8000.5 and 8001.
Areas == {-1, 0, 2 * AreaThreshold + 1, 2 * AreaThreshold + 2}

AreaFonts ==
  UNION {[tables : {{"glyf"}}, areas : [D -> Areas]] : D \in SUBSET {"a", "b"}}

check_regression_glyphs_structure ==
  /\ Idle
  /\ \E new_font \in AreaFonts, old_font \in AreaFonts :
       Call("check_regression_glyphs_structure",
            [new_font |-> new_font, old_font |-> old_font],
            regression_glyphs_structure(new_font, old_font))

(***************************************************************************)
(* checks 132 to 151: glyph coverage with pyfontaine.  Each rule opens its *)
(* check and calls check_with_pyfontaine with its glyph set.  `tool` is    *)
(* what subprocess.check_output does: it returns the combined output of a  *)
(* run that exited with code 0 ("ran"), raises CalledProcessError with the *)
(* output of a run that exited with another code, raises OSError when the  *)
(* executable cannot be started, or waits for a process that never ends    *)
(* ("no answer"): the call is given no timeout.  The output is a sequence  *)
(* of tokens.                                                              *)
(***************************************************************************)
MaxOutputLen == 2     \* the tool's output has at most MaxOutputLen tokens

check_with_pyfontaineOSErrorIsError(cs, font_file, glyphset, tool) ==
  IF tool.kind = "no answer" THEN Waiting(cs, "pyfontaine")
  ELSE IF tool.kind = "ran"
  THEN IF ~Contains(tool.output, "Support level: full")
       THEN Outcome(record(cs, "ERROR", "pyfontaine output follows:\n\n{}\n", <<tool.output>>),
                    NoFont, NoFamily, <<>>, {}, None, "")
       ELSE Outcome(record(cs, "OK", "pyfontaine passed this file", <<>>),
                    NoFont, NoFamily, <<>>, {}, None, "")
  ELSE Outcome(record(cs, "ERROR", "pyfontaine returned an error code. Output follows :\n\n{}\n",
                      <<tool.output>>),
               NoFont, NoFamily, <<>>, {}, None, "")

check_with_pyfontaine(cs, font_file, glyphset, tool) ==
  IF tool.kind = "no answer" THEN Waiting(cs, "pyfontaine")
  ELSE IF tool.kind = "ran"
  THEN IF ~Contains(tool.output, "Support level: full")
       THEN Outcome(record(cs, "ERROR", "pyfontaine output follows:\n\n{}\n", <<tool.output>>),
                    NoFont, NoFamily, <<>>, {}, None, "")
       ELSE Outcome(record(cs, "OK", "pyfontaine passed this file", <<>>),
                    NoFont, NoFamily, <<>>, {}, None, "")
  ELSE IF tool.kind = "CalledProcessError"
  THEN Outcome(record(cs, "ERROR", "pyfontaine returned an error code. Output follows :\n\n{}\n",
                      <<tool.output>>),
               NoFont, NoFamily, <<>>, {}, None, "")
  ELSE Outcome(record(cs, "WARNING",
                      "\n\n\npyfontaine is not available! You really MUST check the fonts with this tool. To install it, see https://github.com/googlefonts/gf-docs/blob/master/ProjectChecklist.md#pyfontaine\n\n\n",
                      <<>>),
               NoFont, NoFamily, <<>>, {}, None, "")

\* The rules check_glyphset_<glyph set>: the id of the check and the glyph set.
GlyphsetChecks ==
  << <<"132", "google_cyrillic_historical">>,
     <<"133", "google_cyrillic_plus">>,
     <<"134", "google_cyrillic_plus_locl">>,
     <<"135", "google_cyrillic_pro">>,
     <<"136", "google_greek_ancient_musical_symbols">>,
     <<"137", "google_greek_archaic">>,
     <<"138", "google_greek_coptic">>,
     <<"139", "google_greek_core">>,
     <<"140", "google_greek_expert">>,
     <<"141", "google_greek_plus">>,
     <<"142", "google_greek_pro">>,
     <<"143", "google_latin_core">>,
     <<"144", "google_latin_expert">>,
     <<"145", "google_latin_plus">>,
     <<"146", "google_latin_plus_optional">>,
     <<"147", "google_latin_pro">>,
     <<"148", "google_latin_pro_optional">>,
     <<"149", "google_arabic">>,
     <<"150", "google_vietnamese">>,
     <<"151", "google_extras">> >>

glyphset_check(n, font_file, tool) ==
  check_with_pyfontaine(new_check(<<>>, <<GlyphsetChecks[n][1]>>), font_file,
                        GlyphsetChecks[n][2], tool)

ToolOutputs ==
  SeqsUpTo({"Support level: full", "Support level: partial"}, MaxOutputLen)

ToolOutcomes ==
  [kind : {"ran", "CalledProcessError"}, output : ToolOutputs]
    \cup [kind : {"OSError", "no answer"}, output : {<<>>}]

check_glyphset ==
  /\ Idle
  /\ \E n \in DOMAIN GlyphsetChecks, tool \in ToolOutcomes :
       Call("check_glyphset",
            [font_file |-> <<"Font-Regular", ".ttf">>,
             glyphset |-> GlyphsetChecks[n][2], tool |-> tool],
            glyphset_check(n, <<"Font-Regular", ".ttf">>, tool))

(***************************************************************************)
(* check 081: the family is listed in the Google Font Directory.           *)
(* `get` is what requests.get(url) does: it returns a response with a      *)
(* status code, raises an exception, or waits for an answer that never     *)
(* comes ("no answer"): the call is given no timeout.                      *)
(***************************************************************************)
replace(s, old, new) == [i \in DOMAIN s |-> IF s[i] = old THEN new ELSE s[i]]

family_is_listed_in_GFDirectory(fam, get) ==
  LET c0 == new_check(<<>>, <<"081">>)
      url == <<"http://fonts.googleapis.com/css?family=">> \o replace(fam.name, " ", "+")
  IN IF get.kind = "no answer" THEN Waiting(c0, "requests.get")
     ELSE IF get.kind = "exception"
     THEN Outcome(record(c0, "WARNING", "Failed to query GWF at {}", <<url>>),
                  NoFont, fam, <<>>, {}, None, "")
     ELSE IF get.status_code # 200
     THEN Outcome(record(c0, "ERROR", "No family found in GWF in %s", <<url>>),
                  NoFont, fam, <<>>, {}, None, "")
     ELSE Outcome(record(c0, "OK", "Font is properly listed in Google Font Directory.", <<>>),
                  NoFont, fam, <<>>, {}, Some(url), "")

FamilyNames == {<<"Nunito">>, <<"Open", " ", "Sans">>}

GetOutcomes ==
  [kind : {"response"}, status_code : {200, 404, 503}]
    \cup [kind : {"exception", "no answer"}, status_code : {0}]

check_family_is_listed_in_GFDirectory ==
  /\ Idle
  /\ \E name \in FamilyNames, get \in GetOutcomes :
       Call("check_family_is_listed_in_GFDirectory",
            [family |-> [name |-> name], get |-> get],
            family_is_listed_in_GFDirectory([name |-> name], get))

(***************************************************************************)
(* check 082: the designer is listed in the profiles.csv of GWF.           *)
(* `fetch` is what urllib.urlopen and the reading of the handle do: they   *)
(* yield the rows of the document that came (whatever its HTTP status),    *)
(* raise an exception, or wait for an answer that never comes: the call is *)
(* given no timeout.  A row is a sequence of cells; a cell that is not     *)
(* UTF-8 makes decode raise UnicodeDecodeError.                            *)
(***************************************************************************)
MaxRows == 2          \* the document has at most MaxRows rows

NotUTF8 == "\\xff"

\* row[0].decode('utf-8') of the rows that are not empty, None when one of
\* them raises.
RECURSIVE decoded_designers(_, _, _)
decoded_designers(designers, rows, i) ==
  IF i > Len(rows) THEN Some(designers)
  ELSE IF rows[i] = <<>> THEN decoded_designers(designers, rows, i + 1)
  ELSE IF rows[i][1] = NotUTF8 THEN None
  ELSE decoded_designers(Append(designers, rows[i][1]), rows, i + 1)

METADATA_Designer_exists_in_GWF_profiles_csv(fam, fetch) ==
  LET c0 == new_check(<<>>, <<"082">>)
      designers == decoded_designers(<<>>, fetch.rows, 1)
  IN IF fam.designer = ""
     THEN Outcome(record(c0, "ERROR", "METADATA.pb field \"designer\" MUST NOT be empty!", <<>>),
                  NoFont, fam, <<>>, {}, None, "")
     ELSE IF fam.designer = "Multiple Designers"
     THEN Outcome(record(c0, "SKIP",
                         "Found 'Multiple Designers' at METADATA.pb, which is OK,so we won't look for it at profiles.cvs",
                         <<>>),
                  NoFont, fam, <<>>, {}, None, "")
     ELSE IF fetch.kind = "no answer" THEN Waiting(c0, "urllib.urlopen")
     ELSE IF fetch.kind = "exception" \/ designers = None
     THEN Outcome(record(c0, "WARNING", "Failed to fetch '{}'", <<"PROFILES_RAW_URL">>),
                  NoFont, fam, <<>>, {}, None, "")
     ELSE IF fam.designer \notin Range(designers[1])
     THEN Outcome(record(c0, "WARNING", "METADATA.pb: Designer '{}' is not listed in profiles.csv (at '{}')",
                         <<fam.designer, "PROFILES_GIT_URL">>),
                  NoFont, fam, <<>>, {}, None, "")
     ELSE Outcome(record(c0, "OK", "Found designer '{}' at profiles.csv", <<fam.designer>>),
                  NoFont, fam, <<>>, {}, None, "")

Designers == {"", "Multiple Designers", "Designer A"}

CsvRows == {<<>>, <<"Designer A", "link">>, <<"Designer B">>, <<NotUTF8>>}

FetchOutcomes ==
  [kind : {"rows"}, rows : SeqsUpTo(CsvRows, MaxRows)]
    \cup [kind : {"exception", "no answer"}, rows : {<<>>}]

check_METADATA_Designer_exists_in_GWF_profiles_csv ==
  /\ Idle
  /\ \E designer \in Designers, fetch \in FetchOutcomes :
       Call("check_METADATA_Designer_exists_in_GWF_profiles_csv",
            [family |-> [designer |-> designer], fetch |-> fetch],
            METADATA_Designer_exists_in_GWF_profiles_csv([designer |-> designer], fetch))

(***************************************************************************)
(* checks 129 and 131: the bits of OS/2 fsSelection and of head macStyle.  *)
(* check_bit_entry(fb, font, table, attr, expected, bitmask, bitname) and  *)
(* the bit masks are not part of checks.py: the helper records OK when the *)
(* bit of the field is in the expected state and an ERROR that names the   *)
(* bit and the expected state when it is not.  RIBBI_STYLE_NAMES are the   *)
(* four standard style names.  A font is [tables, fsSelection, macStyle].  *)
(***************************************************************************)
FSSEL_ITALIC == 1
FSSEL_BOLD == 32
FSSEL_REGULAR == 64
MACSTYLE_BOLD == 1
MACSTYLE_ITALIC == 2

RIBBI_STYLE_NAMES == {<<"Regular">>, <<"Italic">>, <<"Bold">>, <<"Bold", " ", "Italic">>}

check_bit_entry(cs, value, table, attr, expected, bitmask, bitname) ==
  IF (BitAnd(value, bitmask) # 0) = expected
  THEN record(cs, "OK", "{} {} {} bit is properly set.", <<table, attr, bitname>>)
  ELSE record(cs, "ERROR", "{} {} {} bit should be {}.",
              <<table, attr, bitname, IF expected THEN "set" ELSE "reset">>)

OS2_fsSelectionNoRegular(f, style) ==
  LET c0 == new_check(<<>>, <<"129">>)
      c1 == check_bit_entry(c0, f.fsSelection, "OS/2", "fsSelection",
                            (style \in STYLE_NAMES
                               /\ style \notin RIBBI_STYLE_NAMES
                               /\ ~Contains(style, "Italic")),
                            FSSEL_REGULAR, "REGULAR")
      c2 == check_bit_entry(c1, f.fsSelection, "OS/2", "fsSelection",
                            Contains(style, "Italic"), FSSEL_ITALIC, "ITALIC")
      c3 == check_bit_entry(c2, f.fsSelection, "OS/2", "fsSelection",
                            style \in {<<"Bold">>, <<"Bold", "Italic">>}, FSSEL_BOLD, "BOLD")
  IN Outcome(c3, f, NoFamily, <<>>, {"OS/2"}, None, "")

OS2_fsSelection(f, style) ==
  LET c0 == new_check(<<>>, <<"129">>)
      c1 == check_bit_entry(c0, f.fsSelection, "OS/2", "fsSelection",
                            Contains(style, "Regular")
                              \/ (style \in STYLE_NAMES
                                    /\ style \notin RIBBI_STYLE_NAMES
                                    /\ ~Contains(style, "Italic")),
                            FSSEL_REGULAR, "REGULAR")
      c2 == check_bit_entry(c1, f.fsSelection, "OS/2", "fsSelection",
                            Contains(style, "Italic"), FSSEL_ITALIC, "ITALIC")
      c3 == check_bit_entry(c2, f.fsSelection, "OS/2", "fsSelection",
                            style \in {<<"Bold">>, <<"Bold", "Italic">>}, FSSEL_BOLD, "BOLD")
  IN Outcome(c3, f, NoFamily, <<>>, {"OS/2"}, None, "")

head_macStyle(f, style) ==
  LET c0 == new_check(<<>>, <<"131">>)
      c1 == check_bit_entry(c0, f.macStyle, "head", "macStyle",
                            Contains(style, "Italic"), MACSTYLE_ITALIC, "ITALIC")
      c2 == check_bit_entry(c1, f.macStyle, "head", "macStyle",
                            style \in {<<"Bold">>, <<"Bold", "Italic">>}, MACSTYLE_BOLD, "BOLD")
  IN Outcome(c2, f, NoFamily, <<>>, {"head"}, None, "")

\* The style strings: the enumerated names, the same names as file names
\* write them (no space), and a name that is not enumerated.
Styles == STYLE_NAMES \cup {Without(s, " ") : s \in STYLE_NAMES} \cup {<<"Condensed">>}

BitFonts ==
  [tables : {{"OS/2", "head"}},
   fsSelection : {i + b + r : i \in {0, FSSEL_ITALIC}, b \in {0, FSSEL_BOLD}, r \in {0, FSSEL_REGULAR}},
   macStyle : {b + i : b \in {0, MACSTYLE_BOLD}, i \in {0, MACSTYLE_ITALIC}}]

check_OS2_fsSelection ==
  /\ Idle
  /\ \E f \in BitFonts, style \in Styles :
       Call("check_OS2_fsSelection", [font |-> f, style |-> style], OS2_fsSelection(f, style))

check_head_macStyle ==
  /\ Idle
  /\ \E f \in BitFonts, style \in Styles :
       Call("check_head_macStyle", [font |-> f, style |-> style], head_macStyle(f, style))

(***************************************************************************)
(* check 071: the font follows the family naming recommendations.          *)
(* A name is a sequence of characters.  get_name_string(font, nameID) is   *)
(* not part of checks.py: it returns the list of the strings of the name   *)
(* records with that ID, kept here in font.names.  A font is               *)
(* [tables, names, usWeightClass]; no font holds a table of tag 'CFF'      *)
(* (the tag of that table is 'CFF ').                                      *)
(***************************************************************************)
MaxUfoDirs == 2       \* a setup form submits at most MaxUfoDirs ufo_dirs
MaxPrefix == 2        \* the characters of a name that are chosen freely

NameChars == {"a", "-", " "}

get_name_string(f, nameID) == f.names[nameID]

\* regex.match(name) for [a-z0-9-]+, IGNORECASE: a match at the start of name.
regex_match(name) == name # <<>> /\ name[1] \in {"a", "-"}

count(name, char) == Cardinality({i \in DOMAIN name : name[i] = char})

\* The entries one loop `for name in get_name_string(...)` appends when the
\* length of a name reaches `limit`.
length_entries(names, limit, field) ==
  [i \in 1..Cardinality({j \in DOMAIN names : Len(names[j]) >= limit}) |->
     <<field, "exceeds max length", limit>>]

RECURSIVE postscript_entries(_, _, _)
postscript_entries(bad_entries, names, i) ==
  IF i > Len(names) THEN bad_entries
  ELSE LET b1 == IF ~regex_match(names[i])
                 THEN Append(bad_entries, <<"PostScript Name", "May contain only a-zA-Z0-9 characters and an hyphen", 0>>)
                 ELSE bad_entries
           b2 == IF count(names[i], "-") > 1
                 THEN Append(b1, <<"Postscript Name", "May contain not more than a single hyphen", 0>>)
                 ELSE b1
       IN postscript_entries(b2, names, i + 1)

weight_entries(f) ==
  IF "OS/2" \notin f.tables THEN <<>>
  ELSE LET weight_value == f.usWeightClass IN
       (IF weight_value % 50 # 0
        THEN << <<"OS/2 usWeightClass", "Value should idealy be a multiple of 50.", 0>> >> ELSE <<>>)
       \o (IF weight_value < 250
           THEN << <<"OS/2 usWeightClass", "Value should idealy be 250 or more. ", 0>> >> ELSE <<>>)
       \o (IF weight_value > 900
           THEN << <<"OS/2 usWeightClass", "Value should idealy be 900 or less.", 0>> >> ELSE <<>>)

font_follows_the_family_naming_recommendations(f) ==
  LET c0 == new_check(<<>>, <<"071">>)
      bad_entries ==
        postscript_entries(<<>>, get_name_string(f, "POSTSCRIPT_NAME"), 1)
          \o length_entries(get_name_string(f, "FULL_FONT_NAME"), 64, "Full Font Name")
          \o length_entries(get_name_string(f, "POSTSCRIPT_NAME"), 30, "PostScript Name")
          \o length_entries(get_name_string(f, "FONT_FAMILY_NAME"), 32, "Family Name")
          \o length_entries(get_name_string(f, "FONT_SUBFAMILY_NAME"), 32, "Style Name")
          \o length_entries(get_name_string(f, "TYPOGRAPHIC_FAMILY_NAME"), 32, "OT Family Name")
          \o length_entries(get_name_string(f, "TYPOGRAPHIC_SUBFAMILY_NAME"), 32, "OT Style Name")
          \o weight_entries(f)
  IN IF Len(bad_entries) > 0
     THEN Outcome(record(c0, "INFO", "Font does not follow some family naming recommendations:\n\n{}",
                         <<bad_entries>>),
                  f, NoFamily, <<>>, {"name", "OS/2"} \cap (f.tables \cup {"name"}), None, "")
     ELSE Outcome(record(c0, "OK", "Font follows the family naming recommendations.", <<>>),
                  f, NoFamily, <<>>, {"name", "OS/2"} \cap (f.tables \cup {"name"}), None, "")

\* The name that starts with `prefix` and goes on with letters up to length n.
Padded(prefix, n) == [i \in 1..n |-> IF i <= Len(prefix) THEN prefix[i] ELSE "a"]

NameIDs ==
  {"POSTSCRIPT_NAME", "FULL_FONT_NAME", "FONT_FAMILY_NAME", "FONT_SUBFAMILY_NAME",
   "TYPOGRAPHIC_FAMILY_NAME", "TYPOGRAPHIC_SUBFAMILY_NAME"}

\* The limit of each name, and a length below which all the limits are.
NameLimit(nameID) ==
  IF nameID = "POSTSCRIPT_NAME" THEN 30 ELSE IF nameID = "FULL_FONT_NAME" THEN 64 ELSE 32

\* Fonts with one record per name: the PostScript name starts with a free
\* prefix and is short, one short of its limit, or at its limit; at most
\* one other name is at its limit, the others one short of it.
NamingFonts ==
  {[tables |-> IF w = 0 THEN {"name"} ELSE {"name", "OS/2"},
    usWeightClass |-> w,
    names |-> [id \in NameIDs |->
                 IF id = "POSTSCRIPT_NAME" THEN <<Padded(prefix, n)>>
                 ELSE IF id = long THEN <<Padded(<<>>, NameLimit(id))>>
                 ELSE <<Padded(<<>>, NameLimit(id) - 1)>>]] :
     prefix \in SeqsUpTo(NameChars, MaxPrefix) \ {<<>>},
     n \in {MaxPrefix, 29, 30},
     long \in (NameIDs \ {"POSTSCRIPT_NAME"}) \cup {"none"},
     w \in {0, 200, 400, 425, 950}}

check_font_follows_the_family_naming_recommendations ==
  /\ Idle
  /\ \E f \in NamingFonts :
       Call("check_font_follows_the_family_naming_recommendations", [font |-> f],
            font_follows_the_family_naming_recommendations(f))

(***************************************************************************)
(* check 091: the Regular has weight 400.  `found` is the value that check *)
(* 090 returned, handed over by the driver.  A font of the family is       *)
(* [full_name, weight, filename].                                          *)
(***************************************************************************)
endswith(s, tok) == s # <<>> /\ s[Len(s)] = tok

regular_is_400IgnoresFound(fam, found) ==
  LET c0 == new_check(<<>>, <<"091">>)
      badfonts == SelectSeq(fam.fonts, LAMBDA f : endswith(f.full_name, "Regular") /\ f.weight # 400)
  IN IF Len(badfonts) > 0
     THEN Outcome(record(c0, "ERROR", "METADATA.pb: Regular font weight must be 400. Please fix: {}",
                         <<[i \in DOMAIN badfonts |-> <<badfonts[i].filename, badfonts[i].weight>>]>>),
                  NoFont, fam, <<>>, {}, None, "")
     ELSE Outcome(record(c0, "OK", "Regular has weight=400", <<>>),
                  NoFont, fam, <<>>, {}, None, "")

regular_is_400(fam, found) ==
  LET c0 == new_check(<<>>, <<"091">>)
      badfonts == SelectSeq(fam.fonts, LAMBDA f : endswith(f.full_name, "Regular") /\ f.weight # 400)
  IN IF ~found
     THEN Outcome(record(c0, "SKIP", "This test will only run if font has a Regular style", <<>>),
                  NoFont, fam, <<>>, {}, None, "")
     ELSE IF Len(badfonts) > 0
     THEN Outcome(record(c0, "ERROR", "METADATA.pb: Regular font weight must be 400. Please fix: {}",
                         <<[i \in DOMAIN badfonts |-> <<badfonts[i].filename, badfonts[i].weight>>]>>),
                  NoFont, fam, <<>>, {}, None, "")
     ELSE Outcome(record(c0, "OK", "Regular has weight=400", <<>>),
                  NoFont, fam, <<>>, {}, None, "")

FullNameFonts ==
  [full_name : {<<"Family", " ", "Regular">>, <<"Family", " ", "Bold">>},
   weight : {400, 700},
   filename : {<<"Family-Regular", ".ttf">>}]

check_regular_is_400 ==
  /\ Idle
  /\ \E fonts \in SeqsUpTo(FullNameFonts, MaxFonts), found \in BOOLEAN :
       Call("check_regular_is_400",
            [family |-> [NoFamily EXCEPT !.fonts = fonts], found |-> found],
            regular_is_400([NoFamily EXCEPT !.fonts = fonts], found))

(***************************************************************************)
(* check 070: the font has the EURO SIGN character.                        *)
(* font['cmap'].buildReversed() (fontTools) is the dict from each glyph    *)
(* name to the set of the code points that the Unicode subtables map to    *)
(* it.                                                                     *)
(***************************************************************************)
buildReversed(tables) ==
  LET names == UNION {Range(tables[i].cmap) : i \in {j \in DOMAIN tables : tables[j].isUnicode}}
  IN [name \in names |->
        UNION {{c \in DOMAIN tables[i].cmap : tables[i].cmap[c] = name} :
                 i \in {j \in DOMAIN tables : tables[j].isUnicode}}]

font_has_char(f, c) ==
  IF c \in DOMAIN buildReversed(f.cmap)
  THEN Cardinality(buildReversed(f.cmap)[c]) > 0
  ELSE FALSE

font_has_EURO_SIGN_character(f) ==
  LET c0 == new_check(<<>>, <<"070">>)
  IN IF font_has_char(f, "Euro")
     THEN Outcome(record(c0, "OK", "Font has 'EURO SIGN' character.", <<>>),
                  f, NoFamily, <<>>, {"cmap"}, None, "")
     ELSE Outcome(record(c0, "ERROR", "Font lacks the '%s' character.", <<"EURO SIGN">>),
                  f, NoFamily, <<>>, {"cmap"}, None, "")

check_font_has_EURO_SIGN_character ==
  /\ Idle
  /\ \E f \in CmapFonts :
       Call("check_font_has_EURO_SIGN_character", [font |-> f], font_has_EURO_SIGN_character(f))

(***************************************************************************)
(* check 099: the full_name of METADATA.pb contains the font name.         *)
(* f is the FontMetadata record [name, full_name]; font_familyname is the  *)
(* family name that check 098 returned.                                    *)
(***************************************************************************)
\* sub in s, for strings
IsSubstring(sub, s) ==
  \E i \in 1..(Len(s) + 1) :
    i + Len(sub) - 1 <= Len(s) /\ SubSeq(s, i, i + Len(sub) - 1) = sub

METADATA_fullname_contains_good_fname(f, font_familyname) ==
  LET c0 == new_check(<<>>, <<"099">>)
  IN IF IsSubstring(font_familyname, f.name)
     THEN Outcome(record(c0, "OK", "METADATA.pb 'full_name' contains font name in right format.", <<>>),
                  NoFont, NoFamily, <<>>, {}, None, "")
     ELSE Outcome(record(c0, "ERROR", "METADATA.pb full_name='{}' does not match correct font name format.",
                         <<f.full_name>>),
                  NoFont, NoFamily, <<>>, {}, None, "")

check_METADATA_fullname_contains_good_fname ==
  /\ Idle
  /\ \E f \in [name : {<<"Nunito">>, <<"Nunito", " ", "Sans">>, <<"Lato">>},
               full_name : {<<"Nunito", " ", "Bold">>, <<"Nunito", " ", "Sans", " ", "Bold">>,
                            <<"Lato", " ", "Bold">>}],
        font_familyname \in {<<"Nunito">>, <<"Nunito", " ", "Sans">>} :
       Call("check_METADATA_fullname_contains_good_fname",
            [f |-> f, font_familyname |-> font_familyname],
            METADATA_fullname_contains_good_fname(f, font_familyname))

(***************************************************************************)
(* check 075: points out of bounds.                                        *)
(* font['glyf'] is a sequence of glyphs [name, xMin, xMax, yMin, yMax,     *)
(* coords], in the order keys() gives them; coords is the sequence of the  *)
(* glyph's points <<x, y>>.                                                *)
(***************************************************************************)
CoordLimit == 32766

\* The rule with `failed` never set: OK follows the warnings.
for_points_out_of_boundsOkRegardless(f) ==
  LET out_of_bounds(glyph, p) ==
        \/ p[1] < glyph.xMin \/ p[1] > glyph.xMax
        \/ p[2] < glyph.yMin \/ p[2] > glyph.yMax
        \/ Abs(p[1]) > CoordLimit \/ Abs(p[2]) > CoordLimit
      RECURSIVE coords_from(_, _, _)
      coords_from(cs, glyph, i) ==
        IF i > Len(glyph.coords) THEN cs
        ELSE coords_from(IF out_of_bounds(glyph, glyph.coords[i])
                         THEN record(cs, "WARNING", "Glyph '{}' coordinates ({},{}) out of bounds.",
                                     <<glyph.name, glyph.coords[i][1], glyph.coords[i][2]>>)
                         ELSE cs,
                         glyph, i + 1)
      RECURSIVE glyphs_from(_, _)
      glyphs_from(cs, i) ==
        IF i > Len(f.glyf) THEN cs
        ELSE glyphs_from(coords_from(cs, f.glyf[i], 1), i + 1)
      c0 == new_check(<<>>, <<"075">>)
      c1 == glyphs_from(c0, 1)
      c2 == record(c1, "OK", "All glyph paths have coordinates within bounds!", <<>>)
  IN Outcome(c2, f, NoFamily, <<>>, {"glyf"}, None, "")

for_points_out_of_bounds(f) ==
  LET out_of_bounds(glyph, p) ==
        \/ p[1] < glyph.xMin \/ p[1] > glyph.xMax
        \/ p[2] < glyph.yMin \/ p[2] > glyph.yMax
        \/ Abs(p[1]) > CoordLimit \/ Abs(p[2]) > CoordLimit
      RECURSIVE coords_from(_, _, _)
      coords_from(cs, glyph, i) ==
        IF i > Len(glyph.coords) THEN cs
        ELSE coords_from(IF out_of_bounds(glyph, glyph.coords[i])
                         THEN record(cs, "WARNING", "Glyph '{}' coordinates ({},{}) out of bounds.",
                                     <<glyph.name, glyph.coords[i][1], glyph.coords[i][2]>>)
                         ELSE cs,
                         glyph, i + 1)
      RECURSIVE glyphs_from(_, _)
      glyphs_from(cs, i) ==
        IF i > Len(f.glyf) THEN cs
        ELSE glyphs_from(coords_from(cs, f.glyf[i], 1), i + 1)
      c0 == new_check(<<>>, <<"075">>)
      c1 == glyphs_from(c0, 1)
      failed == c1 # c0
      c2 == IF ~failed
            THEN record(c1, "OK", "All glyph paths have coordinates within bounds!", <<>>)
            ELSE c1
  IN Outcome(c2, f, NoFamily, <<>>, {"glyf"}, None, "")

check_for_points_out_of_bounds ==
  /\ Idle
  /\ \E glyf \in SeqsUpTo([name : {"A"}, xMin : {0}, xMax : {5, CoordLimit + 1},
                           yMin : {0}, yMax : {0},
                           coords : SeqsUpTo({<<0, 0>>, <<9, 0>>, <<CoordLimit + 1, 0>>}, 2)],
                          2) :
       Call("check_for_points_out_of_bounds", [font |-> [tables |-> {"glyf"}, glyf |-> glyf]],
            for_points_out_of_bounds([tables |-> {"glyf"}, glyf |-> glyf]))

(***************************************************************************)
(* check 078: glyph names do not exceed max length.  The subtables are     *)
(* those of check 076; a glyph name is a sequence of characters.           *)
(***************************************************************************)
MaxGlyphNameLength == 109

glyph_names_do_not_exceed_max_length(f) ==
  LET RECURSIVE items_from(_, _, _)
      items_from(cs, cmap, codepoints) ==
        IF codepoints = {} THEN cs
        ELSE LET codepoint == CHOOSE c \in codepoints : \A d \in codepoints : c <= d
                 name == cmap[codepoint]
             IN items_from(IF Len(name) > MaxGlyphNameLength
                           THEN record(cs, "ERROR", "Glyph name is too long: '{}'", <<name>>)
                           ELSE cs,
                           cmap, codepoints \ {codepoint})
      RECURSIVE subtables_from(_, _)
      subtables_from(cs, i) ==
        IF i > Len(f.cmap) THEN cs
        ELSE subtables_from(items_from(cs, f.cmap[i].cmap, DOMAIN f.cmap[i].cmap), i + 1)
      c0 == new_check(<<>>, <<"078">>)
      c1 == subtables_from(c0, 1)
      failed == c1 # c0
      c2 == IF ~failed
            THEN record(c1, "OK", "No glyph names exceed max allowed length.", <<>>)
            ELSE c1
  IN Outcome(c2, f, NoFamily, <<>>, {"cmap"}, None, "")

check_that_glyph_names_do_not_exceed_max_length ==
  /\ Idle
  /\ \E t \in SeqsUpTo(UNION {[isUnicode : {TRUE},
                               cmap : [D -> {[i \in 1..n |-> "a"] :
                                             n \in {MaxGlyphNameLength, MaxGlyphNameLength + 1}}]] :
                              D \in SUBSET Codepoints},
                       MaxSubtables) :
       Call("check_that_glyph_names_do_not_exceed_max_length",
            [font |-> [tables |-> {"cmap"}, cmap |-> t]],
            glyph_names_do_not_exceed_max_length([tables |-> {"cmap"}, cmap |-> t]))

(***************************************************************************)
(* checks 120, 121, 122 and 128: the fonts of a family compared.           *)
(* directory.get_fonts() is a sequence of font files.  PiFont(path) either *)
(* raises or gives a font whose get_glyphs() is a sequence of glyphs       *)
(* <<glyphcode, count>>, count being what get_contours_count (121) or      *)
(* get_points_count (122) answers for the glyph.                           *)
(***************************************************************************)
all_fonts_have_matching_glyphnames(fonts) ==
  LET RECURSIVE fonts_from(_, _, _)
      fonts_from(cs, glyphs, i) ==
        IF i > Len(fonts) THEN cs
        ELSE IF ~fonts[i].loads
        THEN fonts_from(record(cs, "ERROR", "Failed to load font file: '{}'", <<i>>), glyphs, i + 1)
        ELSE IF glyphs = None
        THEN fonts_from(cs, Some(fonts[i].glyphs), i + 1)
        ELSE IF glyphs # Some(fonts[i].glyphs)
        THEN record(cs, "ERROR",
                    "Font '{}' has different glyphs in comparison to onther fonts in this family.",
                    <<i>>)
        ELSE fonts_from(cs, glyphs, i + 1)
      c0 == new_check(<<>>, <<120>>)
      c1 == fonts_from(c0, None, 1)
      failed == c1 # c0
      c2 == IF failed = FALSE
            THEN record(c1, "OK", "All fonts in family have matching glyph names.", <<>>)
            ELSE c1
  IN Outcome(c2, NoFont, NoFamily, <<>>, {}, None, "")

check_all_fonts_have_matching_glyphnames ==
  /\ Idle
  /\ \E fonts \in SeqsUpTo([loads : {FALSE}, glyphs : {<<>>}]
                             \cup [loads : {TRUE}, glyphs : {<<>>, <<<<65, 1>>>>}],
                           MaxFonts) :
       Call("check_all_fonts_have_matching_glyphnames", [fonts |-> fonts],
            all_fonts_have_matching_glyphnames(fonts))

\* The loop of check 121 and of check 122, which differ in the count they
\* ask of the font: `glyphs` maps each glyph code seen to its last count.
glyphs_have_same_num_of(id, what, fonts) ==
  LET RECURSIVE glyphs_from(_, _, _, _)
      glyphs_from(cs, glyphs, font_glyphs, j) ==
        IF j > Len(font_glyphs) THEN <<cs, glyphs>>
        ELSE LET glyphcode == font_glyphs[j][1]
                 n == font_glyphs[j][2]
                 c1 == IF glyphcode \in DOMAIN glyphs /\ glyphs[glyphcode] # n
                       THEN record(cs, "ERROR", "Number of {} of glyph '{}' does not match.",
                                   <<what, glyphcode, glyphs[glyphcode], n>>)
                       ELSE cs
             IN glyphs_from(c1,
                            [g \in DOMAIN glyphs \cup {glyphcode} |->
                               IF g = glyphcode THEN n ELSE glyphs[g]],
                            font_glyphs, j + 1)
      RECURSIVE fonts_from(_, _, _)
      fonts_from(cs, glyphs, i) ==
        IF i > Len(fonts) THEN cs
        ELSE LET r == glyphs_from(cs, glyphs, fonts[i], 1)
             IN fonts_from(r[1], r[2], i + 1)
      c0 == new_check(<<>>, id)
      c1 == fonts_from(c0, <<>>, 1)
      failed == c1 # c0
      c2 == IF failed = FALSE
            THEN record(c1, "OK", "Glyphs have same number of {} across family.", <<what>>)
            ELSE c1
  IN Outcome(c2, NoFont, NoFamily, <<>>, {}, None, "")

check_glyphs_have_same_num_of_contours ==
  /\ Idle
  /\ \E fonts \in SeqsUpTo(SeqsUpTo({65} \X {1, 2}, 1), MaxFonts) :
       Call("check_glyphs_have_same_num_of_contours", [fonts |-> fonts],
            glyphs_have_same_num_of(<<"121">>, "contours", fonts))

check_glyphs_have_same_num_of_points ==
  /\ Idle
  /\ \E fonts \in SeqsUpTo(SeqsUpTo({65, 8364} \X {4}, 2) \cup {<<<<65, 5>>>>}, 2) :
       Call("check_glyphs_have_same_num_of_points", [fonts |-> fonts],
            glyphs_have_same_num_of(<<"122">>, "points", fonts))

\* ufo_dirs is the sequence of the UFO folders found under `folder`, each
\* given as what lookup_copyright_notice answers for it: None or a notice.
copyright_notice_is_consistent_across_family(ufo_dirs) ==
  LET RECURSIVE failed_from(_, _)
      failed_from(copyright, i) ==
        IF i > Len(ufo_dirs) THEN FALSE
        ELSE IF ufo_dirs[i] = None THEN failed_from(copyright, i + 1)
        ELSE IF copyright # None /\ ufo_dirs[i] # copyright THEN TRUE
        ELSE failed_from(ufo_dirs[i], i + 1)
      c0 == new_check(<<>>, <<"128">>)
      c1 == IF Len(ufo_dirs) = 0
            THEN record(c0, "SKIP", "No UFO font file found.", <<>>)
            ELSE IF failed_from(None, 1)
            THEN record(c0, "ERROR", "{} != {}", <<>>)
            ELSE record(c0, "OK",
                        "Copyright notice is consistent across all fonts in this family.", <<>>)
  IN Outcome(c1, NoFont, NoFamily, <<>>, {}, None, "")

check_copyright_notice_is_consistent_across_family ==
  /\ Idle
  /\ \E ufo_dirs \in SeqsUpTo({None, Some("A"), Some("B")}, MaxFonts) :
       Call("check_copyright_notice_is_consistent_across_family", [ufo_dirs |-> ufo_dirs],
            copyright_notice_is_consistent_across_family(ufo_dirs))

(***************************************************************************)
(* The project views of the web application (bakery/project/views.py).     *)
(* A Python dict is a function on the keys it holds.  p.state is the       *)
(* project's state dict: the keys txt_files, ufo_dirs and out_ufo are      *)
(* there from the start and the setup form adds the others.  p.state is    *)
(* defined outside these views: a request finds either the dict the        *)
(* request before it left in memory (state) or the one save_state wrote    *)
(* last (stored).  A ufo folder is a path, a sequence of characters.  The  *)
(* user is logged in and owns the project.                                 *)
(***************************************************************************)
DEFAULT_SUBSET_LIST ==
  <<"menu", "latin", "latin-ext+latin", "cyrillic+latin", "cyrillic-ext+latin",
    "greek+latin", "greek-ext+latin", "vietnamese+latin">>

Put(d, k, v) == [x \in DOMAIN d \cup {k} |-> IF x = k THEN v ELSE d[x]]

Response(body, flash, save_state, sync_and_process) ==
  [body |-> body, flash |-> flash, save_state |-> save_state,
   sync_and_process |-> sync_and_process]

\* if request.form.get('step') == '2': what the branch leaves in `state` and
\* what it answers.
setup_POST_step2(state0, form) ==
  LET \* i.split('/')[-1][:-4]
      last(i) == LET slashes == {k \in DOMAIN i : i[k] = "/"}
                     from == IF slashes = {} THEN 1
                             ELSE 1 + CHOOSE k \in slashes : \A m \in slashes : m <= k
                 IN SubSeq(i, from, Len(i))
      font_name(i) == SubSeq(last(i), 1, Len(last(i)) - 4)
      s1 == Put(state0, "license_file", form.license_file)
      s2 == Put(s1, "rename", form.rename = "yes")
      RECURSIVE ufo_dirs_from(_, _)
      ufo_dirs_from(s, k) ==
        IF k > Len(form.ufo_dirs) THEN [state |-> s, wrong |-> FALSE]
        ELSE LET i == form.ufo_dirs[k]
             IN IF i \notin s.ufo_dirs THEN [state |-> s, wrong |-> TRUE]
                ELSE IF i \notin DOMAIN s.out_ufo \/ s.out_ufo[i] = <<>> \/ s.rename = FALSE
                THEN ufo_dirs_from(Put(s, "out_ufo", Put(s.out_ufo, i, font_name(i))), k + 1)
                ELSE ufo_dirs_from(s, k + 1)
      u == ufo_dirs_from(s2, 1)
      s3 == Put(u.state, "out_ufo",
                [i \in DOMAIN u.state.out_ufo \cap Range(form.ufo_dirs) |-> u.state.out_ufo[i]])
      s4 == Put(s3, "subset", form.subset)
      s5 == Put(s4, "ttfautohintuse", form.ttfautohintuse # "")
      s6 == IF form.ttfautohint # "" THEN Put(s5, "ttfautohint", form.ttfautohint) ELSE s5
      s7 == Put(s6, "autoprocess", TRUE)
  IN IF form.license_file \notin state0.txt_files
     THEN [state |-> state0, stored |-> None,
           response |-> Response("project/setup.html", "Wrong license_file value, must be an error",
                                 FALSE, FALSE)]
     ELSE IF u.wrong
     THEN [state |-> u.state, stored |-> None,
           response |-> Response("project/setup.html", "Wrong ufo_dir value, must be an error",
                                 FALSE, FALSE)]
     ELSE IF \E k \in DOMAIN form.subset : form.subset[k] \notin Range(DEFAULT_SUBSET_LIST)
     THEN [state |-> s3, stored |-> None,
           response |-> Response("project/setup.html", "Subset value is wrong", FALSE, FALSE)]
     ELSE IF form.rename = "yes"
     THEN [state |-> s7, stored |-> Some(s7),
           response |-> Response("project/setup2.html", "", TRUE, FALSE)]
     ELSE [state |-> s7, stored |-> Some(s7),
           response |-> Response("redirect project.fonts", "Repository %s has been updated",
                                 TRUE, TRUE)]

\* elif request.form.get('step') == '3': form.ufo holds the value of each
\* parameter 'ufo-<folder>' of the form.
setup_POST_step3(state0, form) ==
  LET known == DOMAIN form.ufo \cap DOMAIN state0.out_ufo
      out_ufo == [param \in known |-> form.ufo[param]]
      s1 == Put(state0, "out_ufo", out_ufo)
  IN [state |-> s1, stored |-> Some(s1),
      response |-> Response("redirect project.fonts",
                            IF known # DOMAIN form.ufo
                            THEN "Wrong parameter provided for ufo folder name" ELSE "",
                            TRUE, TRUE)]

UfoDirs ==
  {<<"s", "/", "a", ".", "u", "f", "o">>, <<"b", ".", "u", "f", "o">>, <<"x", ".", "u", "f", "o">>}

InitialState ==
  [txt_files |-> {"OFL.txt"},
   ufo_dirs |-> {<<"s", "/", "a", ".", "u", "f", "o">>, <<"b", ".", "u", "f", "o">>},
   out_ufo |-> <<>>]

Step2Forms ==
  [step : {"2"}, license_file : {"OFL.txt", "README.txt"}, rename : {"yes", "no"},
   ufo_dirs : SeqsUpTo(UfoDirs, MaxUfoDirs), subset : {<<"latin">>, <<"klingon">>},
   ttfautohintuse : {"on"}, ttfautohint : {"-x"}]

Step3Forms ==
  UNION {[step : {"3"}, ufo : [D -> {<<>>, <<"N">>}]] :
         D \in SUBSET {<<"s", "/", "a", ".", "u", "f", "o">>, <<"x", ".", "u", "f", "o">>}}

Respond(view, method, form, state0, out) ==
  /\ request' = [view |-> view, method |-> method, form |-> form, state |-> state0]
  /\ state' = out.state
  /\ stored' = IF out.stored = None THEN stored ELSE out.stored[1]
  /\ response' = out.response
  /\ UNCHANGED rules

setup ==
  \E state0 \in {state, stored} :
    \/ Respond("setup", "GET", <<>>, state0,
               [state |-> state0, stored |-> None,
                response |-> Response("project/setup.html", "", FALSE, FALSE)])
    \/ \E form \in Step2Forms :
         Respond("setup", "POST", form, state0, setup_POST_step2(state0, form))
    \/ \E form \in Step3Forms :
         Respond("setup", "POST", form, state0, setup_POST_step3(state0, form))
    \/ Respond("setup", "POST", [step |-> "1"], state0,
               [state |-> state0, stored |-> None,
                response |-> Response("redirect project.fonts", "Strange behaviour detected",
                                      FALSE, FALSE)])

bump ==
  \E state0 \in {state, stored} :
    Respond("bump", "GET", <<>>, state0,
            [state |-> state0, stored |-> None,
             response |-> Response("redirect project.fonts", "Git %s was updated", FALSE, TRUE)])

fonts_view ==
  \E state0 \in {state, stored} :
    Respond("fonts", "GET", <<>>, state0,
            [state |-> state0, stored |-> None,
             response |-> Response(IF "autoprocess" \in DOMAIN state0 /\ state0.autoprocess
                                   THEN "project/fonts.html" ELSE "redirect project.setup",
                                   "", FALSE, FALSE)])

ProjectNext ==
  \/ setup
  \/ bump
  \/ fonts_view

(***************************************************************************)
(* The driver.                                                             *)
(***************************************************************************)
Init ==
  /\ rule = ""
  /\ args = [font |-> NoFont]
  /\ checks = <<>>
  /\ font = NoFont
  /\ family = NoFamily
  /\ saved = <<>>
  /\ reads = {}
  /\ ret = None
  /\ raised = ""
  /\ waiting = ""
  /\ state = InitialState
  /\ stored = InitialState
  /\ request = [view |-> ""]
  /\ response = Response("", "", FALSE, FALSE)

\* The driver takes the outcome of the call into its report and turns to the
\* next rule, with the recorder's check context and the objects loaded anew.
\* It does so when the call is over.
driver_next_rule ==
  /\ rule # ""
  /\ waiting = ""
  /\ rule' = ""
  /\ args' = [font |-> NoFont]
  /\ checks' = <<>>
  /\ font' = NoFont
  /\ family' = NoFamily
  /\ saved' = <<>>
  /\ reads' = {}
  /\ ret' = None
  /\ raised' = ""
  /\ waiting' = ""
  /\ UNCHANGED project

Next ==
  \/ check_unused_data_at_the_end_of_glyf_table
  \/ check_post_italicAngle
  \/ check_METADATA_subsets_alphabetically_ordered
  \/ perform_all_fontforge_checks
  \/ check_file_is_named_canonically
  \/ check_Filename_is_set_canonically
  \/ check_MaxAdvanceWidth_is_consistent_with_Hmtx_and_Hhea_tables
  \/ check_METADATA_check_style_weight_pairs_are_unique
  \/ check_regression_ttfauto_xheight_increase
  \/ check_glyphs_have_unique_unicode_codepoints
  \/ check_nonligated_sequences_kerning_info
  \/ check_Copyright_notice_is_the_same_in_all_fonts
  \/ check_METADATA_family_values_are_all_the_same
  \/ check_font_has_regular_style
  \/ check_regression_v_number_increased
  \/ check_regression_glyphs_structure
  \/ check_glyphset
  \/ check_family_is_listed_in_GFDirectory
  \/ check_METADATA_Designer_exists_in_GWF_profiles_csv
  \/ check_OS2_fsSelection
  \/ check_head_macStyle
  \/ check_font_follows_the_family_naming_recommendations
  \/ check_regular_is_400
  \/ check_font_has_EURO_SIGN_character
  \/ check_METADATA_fullname_contains_good_fname
  \/ check_post_italicAngle_again
  \/ check_for_points_out_of_bounds
  \/ check_that_glyph_names_do_not_exceed_max_length
  \/ check_all_fonts_have_matching_glyphnames
  \/ check_glyphs_have_same_num_of_contours
  \/ check_glyphs_have_same_num_of_points
  \/ check_copyright_notice_is_consistent_across_family
  \/ driver_next_rule

Spec == Init /\ [][Next]_vars

(***************************************************************************)
(* Properties of the rules.                                                *)
(***************************************************************************)
Returned == rule # "" /\ raised = "" /\ waiting = ""

IsSubsetOrder(s) == \A i \in 1..(Len(s) - 1) : ~StrLess(s[i + 1], s[i])

Occurrences(s, x) == Cardinality({i \in DOMAIN s : s[i] = x})

SameElements(a, b) ==
  \A x \in Range(a) \cup Range(b) : Occurrences(a, x) = Occurrences(b, x)

BitIsSet(w, b) == (w \div Pow2(b)) % 2 = 1

\* the bits of the validation state that stand for a defect class
KnownBits == (1..14) \cup (18..23)

Errors(cs) == {i \in DOMAIN cs : CountKind(cs[i], "ERROR") > 0}

\* C1: a rule that opened a check and returned normally has recorded at least
\* one event on every check it opened.
C1_EveryCheckHasAnEvent ==
  Returned => \A i \in DOMAIN checks : Len(checks[i].events) >= 1

\* C2: whenever a rule has recorded a HOTFIX event, it has invoked a save
\* operation before it returned.
C2_HotfixIsSaved ==
  (Returned /\ \E i \in DOMAIN checks : CountKind(checks[i], "HOTFIX") > 0)
    => Len(saved) >= 1

\* C3: check_post_italicAngle on a positive angle v: with autofix the first
\* event is the HOTFIX from v to -v and post.italicAngle becomes -v, or -20
\* with a second HOTFIX when v > 20; without autofix the first event is an
\* ERROR, no HOTFIX is recorded and post.italicAngle stays v.
C3_PositiveAngle ==
  (rule = "check_post_italicAngle" /\ args.font.italicAngle > 0) =>
    LET v == args.font.italicAngle
        ev == checks[1].events
    IN /\ Len(checks) = 1
       /\ Len(ev) >= 1
       /\ IF args.autofix
          THEN /\ ev[1].kind = "HOTFIX"
               /\ ev[1].args = <<v, -v>>
               /\ IF v > 20
                  THEN /\ font.italicAngle = -20
                       /\ Len(ev) >= 2
                       /\ ev[2].kind = "HOTFIX"
                       /\ CountKind(checks[1], "HOTFIX") = 2
                  ELSE /\ font.italicAngle = -v
                       /\ CountKind(checks[1], "HOTFIX") = 1
          ELSE /\ ev[1].kind = "ERROR"
               /\ ev[1].args = <<v, -v>>
               /\ CountKind(checks[1], "HOTFIX") = 0
               /\ font.italicAngle = v

C3_Witness ==
  /\ rule = "check_post_italicAngle"
  /\ args.autofix
  /\ args.font.italicAngle = 15
  /\ font.italicAngle = -15
  /\ CountKind(checks[1], "HOTFIX") = 1

\* C4: check_METADATA_subsets_alphabetically_ordered records exactly one
\* event.  On an unsorted list with autofix it is a HOTFIX, family.subsets
\* becomes the sorted permutation of the list and save is invoked exactly once
\* (with that family); without autofix it is an ERROR, the list is unchanged
\* and nothing is saved.  On a sorted list it is an OK and nothing is changed
\* or saved.
C4_SubsetsSortedAndSaved ==
  (rule = "check_METADATA_subsets_alphabetically_ordered") =>
    LET orig == args.family.subsets IN
    /\ Len(checks) = 1
    /\ Len(checks[1].events) = 1
    /\ IF ~IsSubsetOrder(orig)
       THEN IF args.autofix
            THEN /\ checks[1].events[1].kind = "HOTFIX"
                 /\ IsSubsetOrder(family.subsets)
                 /\ SameElements(family.subsets, orig)
                 /\ Len(saved) = 1
                 /\ saved[1].family = family
            ELSE /\ checks[1].events[1].kind = "ERROR"
                 /\ family.subsets = orig
                 /\ saved = <<>>
       ELSE /\ checks[1].events[1].kind = "OK"
            /\ family.subsets = orig
            /\ saved = <<>>

C4_Witness ==
  /\ rule = "check_METADATA_subsets_alphabetically_ordered"
  /\ args.autofix
  /\ args.family.subsets = << <<2>>, <<1, 2>>, <<2>> >>
  /\ family.subsets = << <<1, 2>>, <<2>>, <<2>> >>
  /\ Len(saved) = 1

\* C5: perform_all_fontforge_checks records, for each known bit, exactly one
\* event on the sub-check of that bit: ERROR iff the bit is set in the word,
\* OK otherwise; the number of ERROR events is the number of known bits set,
\* and the word 0x2 gives the single ERROR "Contours are not closed!".
C5_OneEventPerKnownBit ==
  (rule = "perform_all_fontforge_checks") =>
    LET w == args.validation_state IN
    /\ Len(checks) = Cardinality(KnownBits)
    /\ \A b \in KnownBits :
         \E i \in DOMAIN checks :
           /\ FFChecks[i].mask = Pow2(b)
           /\ \A j \in DOMAIN checks : FFChecks[j].mask = Pow2(b) => j = i
           /\ checks[i].id = <<"039-", FFChecks[i].description>>
           /\ Len(checks[i].events) = 1
           /\ checks[i].events[1].kind = (IF BitIsSet(w, b) THEN "ERROR" ELSE "OK")
    /\ Cardinality(Errors(checks)) = Cardinality({b \in KnownBits : BitIsSet(w, b)})
    /\ (w = 2) =>
         /\ Errors(checks) = {1}
         /\ checks[1].events[1].text = "Contours are not closed!"

C5_Witness ==
  /\ rule = "perform_all_fontforge_checks"
  /\ args.validation_state = 2
  /\ Errors(checks) = {1}

\* the word w with every bit that is not a known bit cleared
KnownPart(w) ==
  LET RECURSIVE Sum(_)
      Sum(B) == IF B = {} THEN 0
                ELSE LET b == CHOOSE x \in B : TRUE
                     IN (IF BitIsSet(w, b) THEN Pow2(b) ELSE 0) + Sum(B \ {b})
  IN Sum(KnownBits)

\* C6: perform_all_fontforge_checks opens the same sequence of sub-checks for
\* every word, and the checks and events it leaves are those of the word with
\* its unknown bits cleared: words that differ in unknown bits only give the
\* same events.
C6_UnknownBitsIgnored ==
  (rule = "perform_all_fontforge_checks") =>
    /\ [i \in DOMAIN checks |-> checks[i].id]
         = [i \in DOMAIN FFChecks |-> <<"039-", FFChecks[i].description>>]
    /\ checks = fontforge_checks(KnownPart(args.validation_state)).checks

C6_Witness ==
  /\ rule = "perform_all_fontforge_checks"
  /\ args.validation_state = 2 + 32768
  /\ Errors(checks) = {1}

\* C7: check_unused_data_at_the_end_of_glyf_table on a font without 'CFF '
\* (that has loca and glyf) records exactly one event, with
\* diff = len(glyf) - (len(loca) - 1): OK iff 0 <= diff <= 3, the ERROR
\* "unreachable data" iff diff > 3, the ERROR "beyond the end" iff diff < 0.
\* On a font with 'CFF ' it records exactly one SKIP and reads neither table.
C7_GlyfPadding ==
  (rule = "check_unused_data_at_the_end_of_glyf_table") =>
    LET f == args.font IN
    /\ Len(checks) = 1
    /\ IF "CFF " \in f.tables
       THEN /\ Kinds(checks[1]) = <<"SKIP">>
            /\ reads \cap {"loca", "glyf"} = {}
            /\ raised = ""
       ELSE ({"loca", "glyf"} \subseteq f.tables) =>
              LET expected == f.loca_len - 1
                  diff == f.glyf_len - expected
                  ev == checks[1].events
              IN /\ raised = ""
                 /\ Len(ev) = 1
                 /\ (ev[1].kind = "OK") <=> (0 <= diff /\ diff <= 3)
                 /\ (ev[1].kind = "ERROR"
                       /\ ev[1].text = "Glyf table has unreachable data at the end of the table.")
                      <=> (diff > 3)
                 /\ (ev[1].kind = "ERROR"
                       /\ ev[1].text = "Loca table references data beyond the end of the glyf table.")
                      <=> (diff < 0)
                 /\ (ev[1].kind = "ERROR") => ev[1].args = <<expected, f.glyf_len, diff>>

C7_Witness ==
  /\ rule = "check_unused_data_at_the_end_of_glyf_table"
  /\ args.font.tables = {"loca", "glyf"}
  /\ args.font.loca_len = 4
  /\ args.font.glyf_len = 6
  /\ Kinds(checks[1]) = <<"OK">>

\* C8: check_file_is_named_canonically records OK and returns True iff the
\* base name of the file is <family>-<style> with <style> an enumerated style
\* name without its spaces; on every other base name it records ERROR and
\* returns False.
C8_CanonicalIffFamilyStyle ==
  (rule = "check_file_is_named_canonically") =>
    LET basename == splitext_root(path_tail(args.font_fname))
        parts == split(basename, "-")
        exact == Len(parts) = 2 /\ parts[2] \in style_file_names
    IN /\ Len(checks) = 1
       /\ exact => (Kinds(checks[1]) = <<"OK">> /\ ret = Some(TRUE))
       /\ ~exact => (Kinds(checks[1]) = <<"ERROR">> /\ ret = Some(FALSE))

\* the suffix of the canonical file name of a weight of 100..900
CanonicalSuffix(weight, style) ==
  LET w == IF weight = 400 THEN <<>> ELSE <<WeightNames[weight \div 100]>>
      x == w \o (IF style = <<"italic">> THEN <<"Italic">> ELSE <<>>)
  IN IF x = <<>> THEN <<"Regular">> ELSE x

\* C9: check_Filename_is_set_canonically records OK iff f.filename is
\* <name without spaces>-<suffix>.ttf for the suffix of (weight, style); for a
\* weight outside 100..900 or a style other than normal and italic it accepts
\* no filename.
C9_CanonicalFilename ==
  (rule = "check_Filename_is_set_canonically") =>
    LET f == args.f
        inMap == f.weight \in {100 * k : k \in 1..9}
                   /\ f.style \in {<<"normal">>, <<"italic">>}
        accepted == Kinds(checks[1]) = <<"OK">>
    IN /\ Len(checks) = 1
       /\ Len(checks[1].events) = 1
       /\ IF inMap
          THEN accepted <=>
                 f.filename = Without(f.name, " ") \o <<"-">>
                                \o CanonicalSuffix(f.weight, f.style) \o <<".", "ttf">>
          ELSE ~accepted

\* C10: check_MaxAdvanceWidth_is_consistent_with_Hmtx_and_Hhea_tables returns
\* normally with exactly one event: OK iff the greatest advance width of hmtx
\* is hhea.advanceWidthMax, ERROR when they differ or hmtx has no metrics.
C10_ReturnsWithOneEvent ==
  (rule = "check_MaxAdvanceWidth_is_consistent_with_Hmtx_and_Hhea_tables") =>
    LET w == args.font.widths
        agree == w # <<>> /\ args.font.advanceWidthMax \in Range(w)
                   /\ \A i \in DOMAIN w : w[i] <= args.font.advanceWidthMax
    IN /\ raised = ""
       /\ Len(checks) = 1
       /\ Kinds(checks[1]) = (IF agree THEN <<"OK">> ELSE <<"ERROR">>)

(***************************************************************************)
(* C11: check 076 records an ERROR whenever two distinct glyph names are   *)
(* assigned the same code point in the Unicode cmap subtables of the font  *)
(* (two Unicode subtables that map one code point to different names       *)
(* included), and records OK only when no code point is shared by two      *)
(* glyph names.                                                            *)
(***************************************************************************)
SharedCodepoint(tables) ==
  \E i, j \in DOMAIN tables :
    /\ tables[i].isUnicode
    /\ tables[j].isUnicode
    /\ \E c \in DOMAIN tables[i].cmap \cap DOMAIN tables[j].cmap :
         tables[i].cmap[c] # tables[j].cmap[c]

C11_SharedCodepointIsError ==
  rule = "check_glyphs_have_unique_unicode_codepoints" =>
    /\ SharedCodepoint(args.font.cmap) => CountKind(checks[1], "ERROR") >= 1
    /\ CountKind(checks[1], "OK") >= 1 => ~SharedCodepoint(args.font.cmap)

(***************************************************************************)
(* C12: with kerning info, check 065 records ERROR listing exactly the     *)
(* ligature component pairs (first, second) for which no GPOS type-2       *)
(* pair-adjustment lookup has a kerning pair, and OK iff every component   *)
(* pair has one: a first glyph with two ligatures of which only one has a  *)
(* non-ligated kerning pair is reported for the other.  Without kerning    *)
(* info it records exactly one SKIP and does not read GPOS.                *)
(***************************************************************************)
HasKerningPair(f, first, second) ==
  \E n \in DOMAIN f.Lookup :
    /\ f.Lookup[n].LookupType = 2
    /\ \E p \in DOMAIN f.Lookup[n].SubTable :
         LET pairpos == f.Lookup[n].SubTable[p]
         IN \E i \in DOMAIN pairpos.Coverage :
              /\ pairpos.Coverage[i] = first
              /\ i \in DOMAIN pairpos.PairSet
              /\ second \in Range(pairpos.PairSet[i])

UnkernedPairs(f) ==
  {pair \in ligatures_str(f.ligatures) : ~HasKerningPair(f, pair[1], pair[2])}

C12_UnkernedPairsReported ==
  rule = "check_nonligated_sequences_kerning_info" =>
    IF args.has_kerning_info
    THEN /\ raised = ""
         /\ Len(checks[1].events) = 1
         /\ IF UnkernedPairs(args.font) = {}
            THEN Kinds(checks[1]) = <<"OK">>
            ELSE /\ Kinds(checks[1]) = <<"ERROR">>
                 /\ checks[1].events[1].args = <<UnkernedPairs(args.font)>>
    ELSE /\ Kinds(checks[1]) = <<"SKIP">>
         /\ "GPOS" \notin reads

(***************************************************************************)
(* C13: check 088 records OK iff the copyright strings of all the          *)
(* FontMetadata records of the family are identical, and ERROR otherwise,  *)
(* for every list of copyright strings, lists with empty strings included  *)
(* (['', 'A'] is an ERROR); the same holds of check 089 for the family     *)
(* name field.                                                             *)
(***************************************************************************)
AllIdentical(values) == \A i, j \in DOMAIN values : values[i] = values[j]

C13_SameInAllFonts ==
  /\ rule = "check_Copyright_notice_is_the_same_in_all_fonts" =>
       Kinds(checks[1]) =
         IF AllIdentical([i \in DOMAIN args.family.fonts |-> args.family.fonts[i].copyright])
         THEN <<"OK">> ELSE <<"ERROR">>
  /\ rule = "check_METADATA_family_values_are_all_the_same" =>
       Kinds(checks[1]) =
         IF AllIdentical([i \in DOMAIN args.family.fonts |-> args.family.fonts[i].name])
         THEN <<"OK">> ELSE <<"ERROR">>

(***************************************************************************)
(* C14: check 090 records OK and returns True iff exactly one FontMetadata *)
(* record of the family has weight 400 and style 'normal'; with no such    *)
(* record, or with two or more, it records ERROR and returns False.        *)
(***************************************************************************)
Regulars(fonts) ==
  {i \in DOMAIN fonts : fonts[i].weight = 400 /\ fonts[i].style = <<"normal">>}

C14_ExactlyOneRegular ==
  rule = "check_font_has_regular_style" =>
    IF Cardinality(Regulars(args.family.fonts)) = 1
    THEN Kinds(checks[1]) = <<"OK">> /\ ret = Some(TRUE)
    ELSE Kinds(checks[1]) = <<"ERROR">> /\ ret = Some(FALSE)

(***************************************************************************)
(* C15: check 084 records an ERROR event iff two FontMetadata records of   *)
(* the family share the same (style, weight) pair, and records OK iff all  *)
(* the pairs are distinct.                                                 *)
(***************************************************************************)
SharedStyleWeight(fonts) ==
  \E i, j \in DOMAIN fonts :
    i # j /\ fonts[i].style = fonts[j].style /\ fonts[i].weight = fonts[j].weight

C15_DuplicatePairIsError ==
  rule = "check_METADATA_check_style_weight_pairs_are_unique" =>
    /\ CountKind(checks[1], "ERROR") >= 1 <=> SharedStyleWeight(args.family.fonts)
    /\ CountKind(checks[1], "OK") >= 1 <=> ~SharedStyleWeight(args.family.fonts)

(***************************************************************************)
(* C16: each of the three regression checks (117 version, 118 glyph        *)
(* structure, 119 ttfautohint x-height), run with the old font equal to    *)
(* the new font, records no ERROR event and exactly one OK event, whether  *)
(* or not the font has an fpgm table.                                      *)
(***************************************************************************)
RegressionRules ==
  {"check_regression_v_number_increased",
   "check_regression_glyphs_structure",
   "check_regression_ttfauto_xheight_increase"}

C17_MissingFpgmIsSkipped ==
  rule = "check_regression_ttfauto_xheight_increase" =>
    LET new_has == "fpgm" \in args.new_font.tables
        old_has == "fpgm" \in args.old_font.tables
    IN /\ new_has # old_has =>
            /\ CountKind(checks[1], "SKIP") >= 1
            /\ CountKind(checks[1], "ERROR") = 0
       /\ CountKind(checks[1], "ERROR") >= 1 =>
            /\ new_has
            /\ old_has
            /\ args.new_font.xheight # args.old_font.xheight

(***************************************************************************)
(* C18: an invocation of check_with_pyfontaine that comes to its end       *)
(* records exactly one event and lets no exception escape: OK iff the tool *)
(* ran and its combined output contains 'Support level: full'; ERROR with  *)
(* the raw output embedded when the tool ran without that marker or exited *)
(* with a non-zero code; WARNING, never ERROR, when the executable cannot  *)
(* be invoked (OSError).                                                   *)
(***************************************************************************)
C18_OneEventPerToolOutcome ==
  (rule = "check_glyphset" /\ waiting = "") =>
    LET tool == args.tool
        full == Contains(tool.output, "Support level: full")
    IN /\ raised = ""
       /\ Len(checks) = 1
       /\ Len(checks[1].events) = 1
       /\ checks[1].events[1].kind = "OK" <=> (tool.kind = "ran" /\ full)
       /\ (tool.kind = "ran" /\ ~full) \/ tool.kind = "CalledProcessError" =>
            /\ checks[1].events[1].kind = "ERROR"
            /\ checks[1].events[1].args = <<tool.output>>
       /\ tool.kind = "OSError" => checks[1].events[1].kind = "WARNING"

\* The executable was not there and the check holds one WARNING.
C18_Witness ==
  /\ rule = "check_glyphset"
  /\ waiting = ""
  /\ args.tool.kind = "OSError"
  /\ Kinds(checks[1]) = <<"WARNING">>

(***************************************************************************)
(* The rules that call an external collaborator, run by a driver that     *)
(* goes on as long as it can take a step: it calls the next rule when the  *)
(* call in progress is over.                                               *)
(***************************************************************************)
CollaboratorNext ==
  \/ check_glyphset
  \/ check_family_is_listed_in_GFDirectory
  \/ check_METADATA_Designer_exists_in_GWF_profiles_csv
  \/ driver_next_rule

FairSpec == Init /\ [][CollaboratorNext]_vars /\ WF_vars(CollaboratorNext)

\* The requests of a user to the views of one project.
ProjectSpec == Init /\ [][ProjectNext]_vars

(***************************************************************************)
(* C19: a check that calls an external collaborator (pyfontaine in checks  *)
(* 132 to 151, the HTTP GET of check 081, the CSV fetch of check 082)      *)
(* eventually returns even if the collaborator never answers: the call is  *)
(* bounded by a timeout, and the timeout yields a WARNING event on that    *)
(* check.                                                                  *)
(***************************************************************************)
C19_CollaboratorCallsEnd ==
  (waiting # "") ~>
    (rule # "" /\ waiting = "" /\ raised = "" /\ CountKind(checks[Len(checks)], "WARNING") >= 1)

(***************************************************************************)
(* C20: checks 081 and 082 are advisory: whatever the remote service does  *)
(* (exception, non-200 status, missing designer row), the event recorded   *)
(* as a result of the network interaction is OK or WARNING, never ERROR,   *)
(* and no exception of the network call leaves the rule.                   *)
(***************************************************************************)
NetworkInteraction ==
  \/ rule = "check_family_is_listed_in_GFDirectory"
  \/ /\ rule = "check_METADATA_Designer_exists_in_GWF_profiles_csv"
     /\ args.family.designer \notin {"", "Multiple Designers"}

C20_NetworkChecksAreAdvisory ==
  (NetworkInteraction /\ waiting = "") =>
    /\ raised = ""
    /\ Len(checks[1].events) = 1
    /\ checks[1].events[1].kind \in {"OK", "WARNING"}

(***************************************************************************)
(* The state check_bit_entry was told to expect, read off the event it     *)
(* recorded: the state of the bit when the event is OK, the other state    *)
(* when it is ERROR.                                                       *)
(***************************************************************************)
ExpectedState(event, value, bitmask) ==
  IF event.kind = "OK" THEN BitAnd(value, bitmask) # 0 ELSE BitAnd(value, bitmask) = 0

ItalicExpected(style) == Contains(style, "Italic")

BoldExpected(style) == style \in {<<"Bold">>, <<"Bold", "Italic">>}

ItalicAndBoldAsClaimed ==
  /\ rule = "check_OS2_fsSelection" =>
       /\ Len(checks[1].events) = 3
       /\ ExpectedState(checks[1].events[2], args.font.fsSelection, FSSEL_ITALIC)
            = ItalicExpected(args.style)
       /\ ExpectedState(checks[1].events[3], args.font.fsSelection, FSSEL_BOLD)
            = BoldExpected(args.style)
  /\ rule = "check_head_macStyle" =>
       /\ Len(checks[1].events) = 2
       /\ ExpectedState(checks[1].events[1], args.font.macStyle, MACSTYLE_ITALIC)
            = ItalicExpected(args.style)
       /\ ExpectedState(checks[1].events[2], args.font.macStyle, MACSTYLE_BOLD)
            = BoldExpected(args.style)

(***************************************************************************)
(* C21 as stated: ITALIC is expected ON iff the style contains 'Italic',   *)
(* BOLD iff the style is exactly 'Bold' or 'BoldItalic', REGULAR iff the   *)
(* style is a non-RIBBI plain (non-italic) style, and checks 129 and 131   *)
(* expect the same ITALIC and BOLD states.                                 *)
(***************************************************************************)
C21_ExpectedBitsAsStated ==
  /\ ItalicAndBoldAsClaimed
  /\ rule = "check_OS2_fsSelection" =>
       ExpectedState(checks[1].events[1], args.font.fsSelection, FSSEL_REGULAR)
         = (args.style \notin RIBBI_STYLE_NAMES /\ ~Contains(args.style, "Italic"))

(***************************************************************************)
(* C21 amended: as stated for ITALIC and BOLD; REGULAR is expected ON iff  *)
(* the style contains 'Regular' or is an enumerated style name that is not *)
(* a RIBBI name and does not contain 'Italic'.                             *)
(***************************************************************************)
C21_ExpectedBits ==
  /\ ItalicAndBoldAsClaimed
  /\ rule = "check_OS2_fsSelection" =>
       ExpectedState(checks[1].events[1], args.font.fsSelection, FSSEL_REGULAR)
         = \/ Contains(args.style, "Regular")
           \/ /\ args.style \in STYLE_NAMES
              /\ args.style \notin RIBBI_STYLE_NAMES
              /\ ~Contains(args.style, "Italic")

\* Check 129 ran on a Regular font whose REGULAR bit is set, and found it right.
C21_Witness ==
  /\ rule = "check_OS2_fsSelection"
  /\ args.style = <<"Regular">>
  /\ args.font.fsSelection = FSSEL_REGULAR
  /\ Kinds(checks[1]) = <<"OK", "OK", "OK">>

(***************************************************************************)
(* C22: check 071 flags (does not record OK for) a PostScript name that is *)
(* not composed solely of the characters A-Z, a-z, 0-9 and hyphen, that    *)
(* holds more than one hyphen or whose length is >= 30, a full name of     *)
(* length >= 64, and family, style, OT-family and OT-style names of length *)
(* >= 32; it records OK iff no entry is flagged, and in every case exactly *)
(* one event.                                                              *)
(***************************************************************************)
NameFlagged(f) ==
  \/ \E i \in DOMAIN f.names["POSTSCRIPT_NAME"] :
       LET name == f.names["POSTSCRIPT_NAME"][i]
       IN \/ \E k \in DOMAIN name : name[k] \notin {"a", "-"}
          \/ name = <<>>
          \/ count(name, "-") > 1
  \/ \E id \in NameIDs : \E i \in DOMAIN f.names[id] : Len(f.names[id][i]) >= NameLimit(id)

WeightFlagged(f) ==
  "OS/2" \in f.tables /\ (f.usWeightClass % 50 # 0 \/ f.usWeightClass < 250 \/ f.usWeightClass > 900)

C22_NamingRecommendations ==
  rule = "check_font_follows_the_family_naming_recommendations" =>
    /\ Len(checks[1].events) = 1
    /\ NameFlagged(args.font) => checks[1].events[1].kind # "OK"
    /\ checks[1].events[1].kind = "OK" <=> ~(NameFlagged(args.font) \/ WeightFlagged(args.font))

(***************************************************************************)
(* C23: checks 090 and 091 depend on one another only through the boolean  *)
(* that check_font_has_regular_style returns: it is True iff check 090     *)
(* recorded OK, and check_regular_is_400 called with it records exactly    *)
(* one SKIP iff it is False; when it is True check 091 records ERROR iff   *)
(* some font whose full_name ends in 'Regular' has a weight other than     *)
(* 400, and OK otherwise.                                                  *)
(***************************************************************************)
C23_RegularDependency ==
  /\ rule = "check_font_has_regular_style" =>
       /\ ret \in {Some(TRUE), Some(FALSE)}
       /\ ret = Some(TRUE) <=> Kinds(checks[1]) = <<"OK">>
  /\ rule = "check_regular_is_400" =>
       LET fonts == args.family.fonts
           bad == \E i \in DOMAIN fonts :
                    /\ fonts[i].full_name[Len(fonts[i].full_name)] = "Regular"
                    /\ fonts[i].weight # 400
       IN /\ Kinds(checks[1]) = <<"SKIP">> <=> ~args.found
          /\ CountKind(checks[1], "SKIP") = 0 <=> args.found
          /\ args.found => Kinds(checks[1]) = IF bad THEN <<"ERROR">> ELSE <<"OK">>

\* Check 091 was handed True and found a Regular of weight 700.
C23_Witness ==
  /\ rule = "check_regular_is_400"
  /\ args.found
  /\ \E i \in DOMAIN args.family.fonts :
       /\ args.family.fonts[i].full_name = <<"Family", " ", "Regular">>
       /\ args.family.fonts[i].weight = 700
  /\ Kinds(checks[1]) = <<"ERROR">>

(***************************************************************************)
(* C24: check 070 records OK only if every Unicode cmap subtable of the    *)
(* font maps the Euro sign, and records ERROR if at least one Unicode cmap *)
(* subtable lacks it.                                                      *)
(***************************************************************************)
LacksEuro(subtable) == subtable.isUnicode /\ 8364 \notin DOMAIN subtable.cmap

C24_EuroInEverySubtable ==
  rule = "check_font_has_EURO_SIGN_character" =>
    LET tables == args.font.cmap
    IN /\ CountKind(checks[1], "OK") >= 1 => \A i \in DOMAIN tables : ~LacksEuro(tables[i])
       /\ (\E i \in DOMAIN tables : LacksEuro(tables[i])) => CountKind(checks[1], "ERROR") >= 1

(***************************************************************************)
(* C25: check 118 lists a glyph as differing iff the glyph is in both the  *)
(* old and the new font and the absolute difference of its surface areas,  *)
(* cut to integers, is strictly greater than 8000: a difference of exactly *)
(* 8000 is not listed, a glyph of one release only is never listed; the    *)
(* check records ERROR iff the list is not empty, and OK otherwise.        *)
(***************************************************************************)
Differing(new_font, old_font) ==
  {glyph \in DOMAIN new_font.areas \cap DOMAIN old_font.areas :
     \/ int(new_font.areas[glyph]) - int(old_font.areas[glyph]) > 8000
     \/ int(old_font.areas[glyph]) - int(new_font.areas[glyph]) > 8000}

C25_GlyphAreaThreshold ==
  rule = "check_regression_glyphs_structure" =>
    LET listed == Differing(args.new_font, args.old_font)
    IN /\ Len(checks[1].events) = 1
       /\ IF listed = {}
          THEN checks[1].events[1].kind = "OK"
          ELSE /\ checks[1].events[1].kind = "ERROR"
               /\ checks[1].events[1].args = <<listed>>

\* Glyph "a" went from 0 to 8000.5 (cut: 8000) and is not listed; glyph "b"
\* went from 0 to 8001 and is listed; both are in both releases.
C25_Witness ==
  /\ rule = "check_regression_glyphs_structure"
  /\ DOMAIN args.new_font.areas = {"a", "b"}
  /\ DOMAIN args.old_font.areas = {"a", "b"}
  /\ args.old_font.areas["a"] = 0
  /\ args.new_font.areas["a"] = 16001
  /\ args.old_font.areas["b"] = 0
  /\ args.new_font.areas["b"] = 16002
  /\ checks[1].events[1].kind = "ERROR"
  /\ checks[1].events[1].args = <<{"b"}>>

(***************************************************************************)
(* C26: check 099 records OK iff the given font family name is a substring *)
(* of the full_name field of the FontMetadata record, and ERROR otherwise: *)
(* its outcome depends on f.full_name and not on f.name.                   *)
(***************************************************************************)
C26_FullNameContainsFamilyName ==
  rule = "check_METADATA_fullname_contains_good_fname" =>
    Kinds(checks[1]) =
      IF IsSubstring(args.font_familyname, args.f.full_name) THEN <<"OK">> ELSE <<"ERROR">>

(***************************************************************************)
(* C27: after check 130 has run with autofix enabled, post.italicAngle is  *)
(* in the range [-20, 0] whatever the angle was, and a second run on the   *)
(* resulting font records no HOTFIX and leaves post.italicAngle unchanged. *)
(***************************************************************************)
C27_AutofixIsIdempotent ==
  (rule = "check_post_italicAngle" /\ args.autofix) =>
    /\ font.italicAngle \in (-20)..0
    /\ "first" \in DOMAIN args =>
         /\ CountKind(checks[1], "HOTFIX") = 0
         /\ font.italicAngle = args.font.italicAngle

\* The first run turned 22 into -20 and the second run has left -20 alone.
C27_Witness ==
  /\ rule = "check_post_italicAngle"
  /\ args.autofix
  /\ "first" \in DOMAIN args
  /\ args.first.italicAngle = 22
  /\ args.font.italicAngle = -20
  /\ font.italicAngle = -20

(***************************************************************************)
(* C28: the events a rule body records on a check never mix success with   *)
(* failure: a check holds at most one OK event, and a check that holds an  *)
(* OK event holds no ERROR, WARNING, INFO, SKIP or HOTFIX event.  Rules    *)
(* whose events are recorded by a helper (check_bit_entry for checks 129   *)
(* and 131, ttfauto_fpgm_xheight_rounding for check 119) are left out: the *)
(* statement is about the events recorded by the rule body itself.         *)
(***************************************************************************)
RecordsThroughHelper ==
  {"check_OS2_fsSelection", "check_head_macStyle", "check_regression_ttfauto_xheight_increase"}

C28_OkNeverMixed ==
  rule \notin RecordsThroughHelper =>
    \A i \in DOMAIN checks :
      /\ CountKind(checks[i], "OK") <= 1
      /\ CountKind(checks[i], "OK") = 1 =>
           Range(Kinds(checks[i])) \cap {"ERROR", "WARNING", "INFO", "SKIP", "HOTFIX"} = {}

\* Check 075 has recorded a warning for each of two points and no OK.
C28_Witness ==
  /\ rule = "check_for_points_out_of_bounds"
  /\ Returned
  /\ Kinds(checks[1]) = <<"WARNING", "WARNING">>

(***************************************************************************)
(* C29: whatever requests the project views get, processing               *)
(* (sync_and_process, called or queued with .delay) is started for a       *)
(* project only after a setup step-2 POST has passed every validation and  *)
(* set state['autoprocess'] to True; a step-3 POST or a bump that comes    *)
(* before a successful step 2 starts none.  Only a successful step 2 sets  *)
(* the key and it saves the state at once, so such a POST has happened     *)
(* exactly when the stored state holds autoprocess.                        *)
(***************************************************************************)
SetupDone == "autoprocess" \in DOMAIN stored /\ stored.autoprocess

C29_ProcessingOnlyAfterSetup == response.sync_and_process => SetupDone

(***************************************************************************)
(* C30: a setup step-2 POST that fails a validation (license_file not in   *)
(* state['txt_files'], a ufo_dir not in state['ufo_dirs'], a subset not in *)
(* DEFAULT_SUBSET_LIST) leaves the state dict as the request found it,     *)
(* calls no save_state and starts no processing; and after a step-2 POST   *)
(* that passes them the keys of state['out_ufo'] are the submitted         *)
(* ufo_dirs.                                                               *)
(***************************************************************************)
FailsValidation(form, state0) ==
  \/ form.license_file \notin state0.txt_files
  \/ \E k \in DOMAIN form.ufo_dirs : form.ufo_dirs[k] \notin state0.ufo_dirs
  \/ \E k \in DOMAIN form.subset : form.subset[k] \notin Range(DEFAULT_SUBSET_LIST)

IsStep2Post == request.view = "setup" /\ request.method = "POST" /\ request.form.step = "2"

C30_FailedStep2LeavesState ==
  IsStep2Post =>
    IF FailsValidation(request.form, request.state)
    THEN /\ state = request.state
         /\ ~response.save_state
         /\ ~response.sync_and_process
    ELSE DOMAIN state.out_ufo = Range(request.form.ufo_dirs)

====
